---- MODULE Spec2Model ----
(***************************************************************************)
(* Clixy: bulk copy / verify / remove / move of a directory subtree.       *)
(*                                                                         *)
(* The module holds three state machines over one filesystem model:        *)
(*   Spec            the locking content tree: execute_copy, Tree::new,    *)
(*                   Tree::copy, Node::prepare_stack, Node::copy,          *)
(*                   Tree::verify, Node::verify                            *)
(*   SpecLegacyCopy  the path based engine: do_copy, copy_directories,     *)
(*                   copy_files, verify_copy                               *)
(*   SpecMove        the two move orchestrators: execute_move              *)
(*                   (commands/move.rs) and execute (commands/file/move.rs)*)
(***************************************************************************)
EXTENDS Integers, Sequences, FiniteSets, TLC

\* ------------------------------------------------------------------ bounds
\* injected I/O failures (create_dir_all, open, io::copy, lock, unlock,
\* remove) per behaviour
MaxFail == 1
\* alterations of a destination file by another process after the copy
MaxAlter == 1

\* ------------------------------------------------------------------- names
\* A file name is a sequence of characters, a path a sequence of names.
NmA == <<"a", ".", "t">>
NmM == <<"m">>
NmD == <<"d">>
NmB == <<"b", ".", "t">>
NmE == <<"e">>
NmS == <<"s">>
NmF == <<"f", ".", "t">>
NmO == <<"o">>

\* the source given on the command line: a directory, or a single file
DirRoot == <<NmS>>
FileRoot == <<NmF>>
\* the destination given on the command line
DestRoot == <<NmO>>

\* Option<T>
None == [some |-> FALSE, val |-> <<>>]
Some(x) == [some |-> TRUE, val |-> x]

\* ------------------------------------------------------------------- paths
Last(s) == s[Len(s)]
Parent(p) == SubSeq(p, 1, Len(p) - 1)
Join(p, name) == Append(p, name)
IsPrefix(p, q) == Len(p) <= Len(q) /\ SubSeq(q, 1, Len(p)) = p
\* Path::strip_prefix
StripPrefix(p, base) ==
    IF IsPrefix(base, p) THEN Some(SubSeq(p, Len(base) + 1, Len(p))) ELSE None
\* PathBuf::join of a relative path
JoinPath(p, rel) == p \o rel

\* index of the final "." of a name, 0 when it has none
LastDot(name) ==
    LET dots == {i \in 1..Len(name) : name[i] = "."}
    IN IF dots = {} THEN 0 ELSE CHOOSE i \in dots : \A j \in dots : j <= i

\* Path::file_stem: the whole name when there is no "." or only a leading one
FileStem(name) ==
    IF LastDot(name) <= 1 THEN Some(name)
    ELSE Some(SubSeq(name, 1, LastDot(name) - 1))

\* Path::extension: None when there is no "." or only a leading one
Extension(name) ==
    IF LastDot(name) <= 1 THEN None
    ELSE Some(SubSeq(name, LastDot(name) + 1, Len(name)))

\* format!("{}.{}", name, extension)
FormatName(stem, ext) == stem \o <<".">> \o ext

\* -------------------------------------------------------------- filesystem
\* A filesystem is a function from the existing paths to their entries.
DirEntry == [kind |-> "dir", data |-> <<>>, mtime |-> 0]
FileEntry(data, mtime) == [kind |-> "file", data |-> data, mtime |-> mtime]

Exists(f, p) == p \in DOMAIN f
IsDir(f, p) == p \in DOMAIN f /\ f[p].kind = "dir"
IsFile(f, p) == p \in DOMAIN f /\ f[p].kind = "file"
\* the entries a read_dir of p lists
ReadDir(f, p) == {q \in DOMAIN f : Len(q) = Len(p) + 1 /\ Parent(q) = p}
\* the parent of a top-level path is the working directory, which exists
ParentIsDir(f, p) == Len(p) = 1 \/ IsDir(f, Parent(p))

Put(f, p, e) == [q \in DOMAIN f \cup {p} |-> IF q = p THEN e ELSE f[q]]
Del(f, p) == [q \in DOMAIN f \ {p} |-> f[q]]

\* std::fs::create_dir_all: fails when a component exists and is no directory
CreateDirAllOk(f, p) == \A k \in 1..Len(p) : ~IsFile(f, SubSeq(p, 1, k))
CreateDirAll(f, p) ==
    LET new == {SubSeq(p, 1, k) : k \in 1..Len(p)}
    IN [q \in DOMAIN f \cup new |-> IF q \in DOMAIN f THEN f[q] ELSE DirEntry]

\* OpenOptions::open with write + create_new
OpenCreateNewOk(f, p) == ~Exists(f, p) /\ ParentIsDir(f, p)
\* OpenOptions::open with write + create + truncate, File::create, fs::copy
OpenTruncateOk(f, p) == ~IsDir(f, p) /\ ParentIsDir(f, p)

\* all orders in which the elements of a finite set can be listed
RECURSIVE Orders(_)
Orders(S) ==
    IF S = {} THEN {<<>>}
    ELSE UNION {{<<x>> \o o : o \in Orders(S \ {x})} : x \in S}

Range(s) == {s[i] : i \in 1..Len(s)}

\* Sha256 of a byte sequence: collision free on the contents of the model
Sha256(data) == <<"sha256", data>>


\* Result<T>
Ok(v) == [ok |-> TRUE, val |-> v, err |-> "none"]
Err(e) == [ok |-> FALSE, val |-> <<>>, err |-> e]
Pending == [ok |-> FALSE, val |-> <<>>, err |-> "pending"]

\* --------------------------------------------------------------- variables
VARIABLES
    fs,             \* the filesystem
    source_path,    \* the source of the command
    pc,             \* the position of the command
    fails,          \* I/O failures injected so far
    alters,         \* alterations of the destination by another process so far
    option,         \* CopyTypesOptions: "None", "Replace", "Complete", "Update"
    into,           \* copy_target
    only_folders,
    tree,           \* Tree.src_root: Option of the nodes, keyed by source path
    locked,         \* the file nodes whose is_locked is true
    cursor,         \* the read position of each file node's handle
    stack,          \* prepare_stack's stack of (node, destination path)
    files_stack,    \* prepare_stack's result: (file node, full_path)
    todo,           \* the items the parallel iteration has not processed yet
    copied_files,   \* the shared list of copied destination paths
    copied_result,  \* what copy returned
    verify_result,  \* what verify returned
    printed,        \* the failure messages verify wrote
    failed,         \* destination paths whose copy took a failure branch
    skipped,        \* destination paths the conflict policy skipped
    dir_content,    \* do_copy: fs_extra's DirContent { files, directories }
    variant,        \* move: "execute_move" (commands/move.rs) or "execute" (commands/file/move.rs)
    ignore,         \* IgnoreFlag: "Files", "Directories", "None"
    path_content,   \* PathContent { entries, size, list_of_dirs, list_of_files, indexed }
    list_to_explore,        \* index_entries' work-list
    copy_list_of_errors,    \* move: the errors of the first phase
    remove_list_of_errors,  \* move: the errors of the second phase
    dirs_ok,
    files_ok,
    outcome,        \* move: how the command ended
    fs0,           \* the filesystem when the command started
    only_files,    \* remove: --only-files
    poisoned,      \* the Mutex of the shared list of errors is poisoned
    value,         \* caesar: Command.value, a sequence of ASCII codes
    shift,         \* caesar: Command.shift
    string,        \* caesar: the string the command prints
    worker,        \* Node::copy: the position and the open mode of each worker
    guard          \* Node::copy: the worker that holds the Mutex of copied_files, or 0

vars == <<fs, source_path, pc, fails, alters, option, into, only_folders,
          tree, locked, cursor, stack, files_stack, todo,
          copied_files, copied_result, verify_result, printed, failed, skipped,
          dir_content, variant, ignore, path_content, list_to_explore,
          copy_list_of_errors, remove_list_of_errors, dirs_ok, files_ok, outcome, fs0,
          only_files, poisoned, value, shift, string, worker, guard>>

\* the state of the move orchestrators
moveVars == <<variant, ignore, path_content, list_to_explore, copy_list_of_errors,
              remove_list_of_errors, dirs_ok, files_ok, outcome, fs0>>

\* the state of the path based engine and of move, left alone by the tree engine
legacyVars == <<dir_content, moveVars>>

paramVars == <<source_path, option, into, only_folders, only_files, poisoned,
               value, shift, string, worker, guard>>

\* --------------------------------------------------------- initial states
\* The source: a single file, or a directory holding any parent-closed
\* subset of a.t, m, d, d/b.t, d/e.
SrcCandidates ==
    {Join(DirRoot, NmA), Join(DirRoot, NmM), Join(DirRoot, NmD),
     Join(Join(DirRoot, NmD), NmB), Join(Join(DirRoot, NmD), NmE)}

SrcKind(p) == IF Last(p) \in {NmD, NmE, NmS} THEN "dir" ELSE "file"

\* the bytes of each source file; every source file was last modified at 1
SrcData(p) ==
    IF Last(p) = NmA THEN <<1, 2>>
    ELSE IF Last(p) = NmM THEN <<3>>
    ELSE IF Last(p) = NmB THEN <<4>>
    ELSE <<5, 6>>

SrcEntry(p) == IF SrcKind(p) = "dir" THEN DirEntry ELSE FileEntry(SrcData(p), 1)

SrcShapes ==
    {X \in SUBSET SrcCandidates :
        \A p \in X : Len(p) > 2 => Parent(p) \in X}

SourceTrees ==
    {[p \in {FileRoot} |-> SrcEntry(p)]}
    \cup {[p \in X \cup {DirRoot} |-> SrcEntry(p)] : X \in SrcShapes}

\* The destination: absent, an empty directory, a regular file, or a
\* directory that already holds a.t (older than, as old as, or newer than the
\* source files).
EmptyFs == [p \in {} |-> DirEntry]
DestTrees ==
    {EmptyFs,
     [p \in {DestRoot} |-> DirEntry],
     [p \in {DestRoot} |-> FileEntry(<<9>>, 0)]}
    \cup {[p \in {DestRoot, Join(DestRoot, NmA)} |->
             IF p = DestRoot THEN DirEntry ELSE FileEntry(<<9>>, m)] : m \in 0..2}

Merge(f, g) == [p \in DOMAIN f \cup DOMAIN g |-> IF p \in DOMAIN f THEN f[p] ELSE g[p]]

SourceOf(f) == IF FileRoot \in DOMAIN f THEN FileRoot ELSE DirRoot

Options == {"None", "Replace", "Complete", "Update"}

InitRun ==
    /\ tree = None
    /\ locked = {}
    /\ cursor = EmptyFs
    /\ stack = <<>>
    /\ files_stack = <<>>
    /\ todo = {}
    /\ copied_files = <<>>
    /\ copied_result = Pending
    /\ verify_result = Pending
    /\ printed = {}
    /\ failed = {}
    /\ skipped = {}
    /\ dir_content = [files |-> <<>>, directories |-> <<>>]
    /\ only_files = FALSE
    /\ poisoned = FALSE
    /\ value = <<>>
    /\ shift = 0
    /\ string = <<>>
    /\ worker = <<>>
    /\ guard = 0

\* PathContent::new
PathContentNew ==
    [entries |-> 0, size |-> 0, list_of_dirs |-> <<>>, list_of_files |-> <<>>,
     indexed |-> FALSE]

InitMoveVars ==
    /\ ignore = "None"
    /\ path_content = PathContentNew
    /\ list_to_explore = <<>>
    /\ copy_list_of_errors = <<>>
    /\ remove_list_of_errors = <<>>
    /\ dirs_ok = FALSE
    /\ files_ok = FALSE
    /\ outcome = "running"

Init ==
    /\ variant = "none"
    /\ InitMoveVars
    /\ \E s \in SourceTrees, d \in DestTrees :
          /\ fs = Merge(s, d)
          /\ source_path = SourceOf(s)
          /\ fs0 = Merge(s, d)
    /\ pc = "start"
    /\ fails = 0
    /\ alters = 0
    /\ option \in Options
    /\ into \in BOOLEAN
    /\ only_folders \in BOOLEAN
    /\ InitRun

\* ------------------------------------------------------- the content tree
\* FileNode { name, extension } and FolderNode { name }
FileNode(name, extension) == [kind |-> "file", name |-> name, extension |-> extension]
FolderNode(name) == [kind |-> "dir", name |-> name, extension |-> <<>>]

\* Node::new: None when the path is neither file nor directory, when a file
\* cannot be opened or has no extension, when a directory cannot be listed.
\* The children for which Node::new returns None are left out (filter_map).
\* bad: the paths whose File::open or read_dir fails.
RECURSIVE NodeNew(_, _, _)
NodeNew(f, bad, path) ==
    IF IsFile(f, path) THEN
        LET name == FileStem(Last(path))
            extension == Extension(Last(path))
        IN IF ~name.some \/ path \in bad \/ ~extension.some THEN None
           ELSE Some([p \in {path} |-> FileNode(name.val, extension.val)])
    ELSE IF IsDir(f, path) THEN
        IF path \in bad THEN None
        ELSE LET children == {NodeNew(f, bad, q).val :
                                q \in {r \in ReadDir(f, path) : NodeNew(f, bad, r).some}}
                 dom == {path} \cup UNION {DOMAIN c : c \in children}
             IN Some([p \in dom |->
                        IF p = path THEN FolderNode(Last(path))
                        ELSE (CHOOSE c \in children : p \in DOMAIN c)[p]])
    ELSE None

Nodes == IF tree.some THEN DOMAIN tree.val ELSE {}
FileNodes == {n \in Nodes : tree.val[n].kind = "file"}
\* FolderNode.children
Children(n) == {c \in Nodes : Len(c) = Len(n) + 1 /\ Parent(c) = n}

\* Node::get_full_path
GetFullPath(n, parent_path) ==
    IF tree.val[n].kind = "file"
    THEN Join(parent_path, FormatName(tree.val[n].name, tree.val[n].extension))
    ELSE Join(parent_path, tree.val[n].name)

\* The orders in which FolderNode::lock and FolderNode::unlock visit the file
\* nodes: the files of a folder in the order of its children, its folders
\* pushed on the stack and popped last-in first-out.
RECURSIVE VisitOrders(_)
VisitOrders(stk) ==
    IF stk = <<>> THEN {<<>>}
    ELSE LET folder == Last(stk)
             rest == SubSeq(stk, 1, Len(stk) - 1)
             IsFileNode(c) == tree.val[c].kind = "file"
             IsFolderNode(c) == tree.val[c].kind = "dir"
         IN UNION {{SelectSeq(perm, IsFileNode) \o o :
                        o \in VisitOrders(rest \o SelectSeq(perm, IsFolderNode))} :
                    perm \in Orders(Children(folder))}

\* Node::lock, Node::unlock: a file root is the only file visited
RootVisitOrders ==
    IF ~tree.some THEN {<<>>}
    ELSE IF tree.val[source_path].kind = "file" THEN {<<source_path>>}
    ELSE VisitOrders(<<source_path>>)

\* FileNode::lock over the whole tree (Node::lock, FolderNode::lock): every
\* file locked, or, when lock_exclusive fails on a file not yet locked, the
\* files visited before it locked and the error returned.
LockResults(lk, can_fail) ==
    {[ok |-> TRUE, locked |-> lk \cup FileNodes]}
    \cup (IF can_fail
          THEN {[ok |-> FALSE, locked |-> lk \cup {o[i] : i \in 1..(k - 1)}] :
                    <<o, k>> \in {<<o, k>> \in RootVisitOrders \X (1..Cardinality(FileNodes)) :
                                    k <= Len(o) /\ o[k] \notin lk}}
          ELSE {})

\* FileNode::unlock over the whole tree (Node::unlock, FolderNode::unlock)
UnlockResults(lk, can_fail) ==
    {[ok |-> TRUE, locked |-> lk \ FileNodes]}
    \cup (IF can_fail
          THEN {[ok |-> FALSE, locked |-> lk \ {o[i] : i \in 1..(k - 1)}] :
                    <<o, k>> \in {<<o, k>> \in RootVisitOrders \X (1..Cardinality(FileNodes)) :
                                    k <= Len(o) /\ o[k] \in lk}}
          ELSE {})

\* Tree::copy's precondition under CopyTypesOptions::None
IsEmpty(f, dest_root_path) ==
    ~Exists(f, dest_root_path)
    \/ (IsDir(f, dest_root_path) /\ ReadDir(f, dest_root_path) = {})

\* a policy that under Update also writes when the two modification times are equal
HandleCopyOptionTie(f, file_node, full_path, opt, meta_fail) ==
    CASE opt = "None" -> [ok |-> TRUE, do_copy |-> TRUE, open |-> "create_new"]
      [] opt = "Replace" -> [ok |-> TRUE, do_copy |-> TRUE, open |-> "truncate"]
      [] opt = "Complete" ->
            IF Exists(f, full_path)
            THEN [ok |-> TRUE, do_copy |-> FALSE, open |-> "none"]
            ELSE [ok |-> TRUE, do_copy |-> TRUE, open |-> "create_new"]
      [] opt = "Update" ->
            IF Exists(f, full_path)
            THEN IF meta_fail THEN [ok |-> FALSE, do_copy |-> FALSE, open |-> "none"]
                 ELSE IF f[file_node].mtime >= f[full_path].mtime
                      THEN [ok |-> TRUE, do_copy |-> TRUE, open |-> "truncate"]
                      ELSE [ok |-> TRUE, do_copy |-> FALSE, open |-> "none"]
            ELSE [ok |-> TRUE, do_copy |-> TRUE, open |-> "create_new"]

\* a policy that under Complete overwrites a destination file that exists
HandleCopyOptionOverwrite(f, file_node, full_path, opt, meta_fail) ==
    CASE opt = "None" -> [ok |-> TRUE, do_copy |-> TRUE, open |-> "create_new"]
      [] opt = "Replace" -> [ok |-> TRUE, do_copy |-> TRUE, open |-> "truncate"]
      [] opt = "Complete" -> [ok |-> TRUE, do_copy |-> TRUE, open |-> "truncate"]
      [] opt = "Update" ->
            IF Exists(f, full_path)
            THEN IF meta_fail THEN [ok |-> FALSE, do_copy |-> FALSE, open |-> "none"]
                 ELSE IF f[file_node].mtime > f[full_path].mtime
                      THEN [ok |-> TRUE, do_copy |-> TRUE, open |-> "truncate"]
                      ELSE [ok |-> TRUE, do_copy |-> FALSE, open |-> "none"]
            ELSE [ok |-> TRUE, do_copy |-> TRUE, open |-> "create_new"]

\* a policy that opens the destination create-or-truncate under every option
HandleCopyOptionClobber(f, file_node, full_path, opt, meta_fail) ==
    CASE opt = "None" -> [ok |-> TRUE, do_copy |-> TRUE, open |-> "truncate"]
      [] opt = "Replace" -> [ok |-> TRUE, do_copy |-> TRUE, open |-> "truncate"]
      [] opt = "Complete" ->
            IF Exists(f, full_path)
            THEN [ok |-> TRUE, do_copy |-> FALSE, open |-> "none"]
            ELSE [ok |-> TRUE, do_copy |-> TRUE, open |-> "truncate"]
      [] opt = "Update" ->
            IF Exists(f, full_path)
            THEN IF meta_fail THEN [ok |-> FALSE, do_copy |-> FALSE, open |-> "none"]
                 ELSE IF f[file_node].mtime > f[full_path].mtime
                      THEN [ok |-> TRUE, do_copy |-> TRUE, open |-> "truncate"]
                      ELSE [ok |-> TRUE, do_copy |-> FALSE, open |-> "none"]
            ELSE [ok |-> TRUE, do_copy |-> TRUE, open |-> "truncate"]

\* Node::handle_copy_option: whether to copy and how to open the destination.
\* meta_fail: reading the metadata of the source or the destination fails.
HandleCopyOption(f, file_node, full_path, opt, meta_fail) ==
    CASE opt = "None" -> [ok |-> TRUE, do_copy |-> TRUE, open |-> "create_new"]
      [] opt = "Replace" -> [ok |-> TRUE, do_copy |-> TRUE, open |-> "truncate"]
      [] opt = "Complete" ->
            IF Exists(f, full_path)
            THEN [ok |-> TRUE, do_copy |-> FALSE, open |-> "none"]
            ELSE [ok |-> TRUE, do_copy |-> TRUE, open |-> "create_new"]
      [] opt = "Update" ->
            IF Exists(f, full_path)
            THEN IF meta_fail THEN [ok |-> FALSE, do_copy |-> FALSE, open |-> "none"]
                 ELSE IF f[file_node].mtime > f[full_path].mtime
                      THEN [ok |-> TRUE, do_copy |-> TRUE, open |-> "truncate"]
                      ELSE [ok |-> TRUE, do_copy |-> FALSE, open |-> "none"]
            ELSE [ok |-> TRUE, do_copy |-> TRUE, open |-> "create_new"]

\* OpenOptions::open(full_path)
OpenOk(f, full_path, mode) ==
    IF mode = "create_new" THEN OpenCreateNewOk(f, full_path)
    ELSE OpenTruncateOk(f, full_path)

\* a byte copy that loses the first byte it reads
IoCopyShort(data, pos) == SubSeq(data, pos + 2, Len(data))

\* std::io::copy(&mut &file_node.handle, &mut dest_file): the bytes from the
\* handle's position to the end of the file
IoCopy(data, pos) == SubSeq(data, pos + 1, Len(data))

\* a file written during the run: modified later than every file of the
\* initial state
Written(data) == FileEntry(data, 3)

\* --------------------------------------------- execute_copy: Tree engine
\* Tree::new
TreeNew ==
    /\ pc = "start"
    /\ \E bad \in SUBSET {p \in DOMAIN fs : IsPrefix(source_path, p)} :
          /\ Cardinality(bad) <= MaxFail - fails
          /\ fails' = fails + Cardinality(bad)
          /\ LET t == NodeNew(fs, bad, source_path)
             IN /\ tree' = t
                /\ cursor' = IF t.some
                             THEN [n \in {m \in DOMAIN t.val : t.val[m].kind = "file"} |-> 0]
                             ELSE EmptyFs
                /\ pc' = IF t.some THEN "tree" ELSE "done"
    /\ UNCHANGED <<fs, alters, paramVars, locked, stack, files_stack, todo,
                   copied_files, copied_result, verify_result, printed, failed, skipped, legacyVars>>

\* Tree::copy up to the call of Node::copy: the precondition, then the lock;
\* Node::copy's stack is initialised (prepare_stack, first statement)
InitialStacks ==
    IF into THEN {<<[node |-> source_path, dest |-> DestRoot]>>}
    ELSE IF tree.val[source_path].kind = "dir"
         THEN {[i \in 1..Len(o) |-> [node |-> o[i], dest |-> DestRoot]] :
                  o \in Orders(Children(source_path))}
         ELSE {<<>>}

TreeCopy ==
    /\ pc = "tree"
    /\ IF option = "None" /\ ~IsEmpty(fs, DestRoot)
       THEN /\ copied_result' = Err("AlreadyExists")
            /\ pc' = "copied"
            /\ UNCHANGED <<locked, stack, fails>>
       ELSE \E r \in LockResults(locked, fails < MaxFail) :
               /\ locked' = r.locked
               /\ IF r.ok
                  THEN /\ stack' \in InitialStacks
                       /\ pc' = "prepare"
                       /\ UNCHANGED <<copied_result, fails>>
                  ELSE /\ copied_result' = Err("lock")
                       /\ pc' = "copied"
                       /\ fails' = fails + 1
                       /\ UNCHANGED stack
    /\ UNCHANGED <<fs, alters, paramVars, tree, cursor, files_stack, todo,
                   copied_files, verify_result, printed, failed, skipped, legacyVars>>

\* Tree::copy after Node::copy returned `result`: unlock, then the result.
\* f: the failures injected so far, this action's own included
TreeCopyReturn(result, f) ==
    \E r \in UnlockResults(locked, f < MaxFail) :
        /\ locked' = r.locked
        /\ copied_result' = IF r.ok THEN result ELSE Err("unlock")
        /\ fails' = IF r.ok THEN f ELSE f + 1
        /\ pc' = "copied"

\* a prepare_stack that copies each file as soon as the traversal reaches it
PrepareStepEager ==
    /\ pc = "prepare"
    /\ stack # <<>>
    /\ LET node == Last(stack).node
           dest_path == Last(stack).dest
           rest == SubSeq(stack, 1, Len(stack) - 1)
           full_path == GetFullPath(node, dest_path)
       IN IF tree.val[node].kind = "file"
          THEN /\ files_stack' = Append(files_stack, [node |-> node, full_path |-> full_path])
               /\ stack' = rest
               /\ IF ParentIsDir(fs, full_path) /\ ~IsDir(fs, full_path)
                  THEN /\ fs' = Put(fs, full_path, Written(fs[node].data))
                       /\ copied_files' = Append(copied_files, full_path)
                  ELSE UNCHANGED <<fs, copied_files>>
               /\ UNCHANGED <<pc, fails, locked, copied_result>>
          ELSE \/ /\ CreateDirAllOk(fs, full_path)
                  /\ fs' = CreateDirAll(fs, full_path)
                  /\ \E o \in Orders(Children(node)) :
                        stack' = rest \o [i \in 1..Len(o) |-> [node |-> o[i], dest |-> full_path]]
                  /\ UNCHANGED <<files_stack, pc, fails, locked, copied_result, copied_files>>
               \/ /\ ~CreateDirAllOk(fs, full_path)
                  /\ TreeCopyReturn(Err("create_dir_all"), fails)
                  /\ UNCHANGED <<fs, stack, files_stack, copied_files>>
    /\ UNCHANGED <<alters, paramVars, tree, cursor, todo,
                   verify_result, printed, failed, skipped, legacyVars>>

\* Node::prepare_stack, one iteration of the while loop
PrepareStep ==
    /\ pc = "prepare"
    /\ stack # <<>>
    /\ LET node == Last(stack).node
           dest_path == Last(stack).dest
           rest == SubSeq(stack, 1, Len(stack) - 1)
           full_path == GetFullPath(node, dest_path)
       IN IF tree.val[node].kind = "file"
          THEN /\ files_stack' = Append(files_stack, [node |-> node, full_path |-> full_path])
               /\ stack' = rest
               /\ UNCHANGED <<fs, pc, fails, locked, copied_result>>
          ELSE \/ /\ CreateDirAllOk(fs, full_path)
                  /\ fs' = CreateDirAll(fs, full_path)
                  /\ \E o \in Orders(Children(node)) :
                        stack' = rest \o [i \in 1..Len(o) |-> [node |-> o[i], dest |-> full_path]]
                  /\ UNCHANGED <<files_stack, pc, fails, locked, copied_result>>
               \/ /\ ~CreateDirAllOk(fs, full_path)
                  /\ TreeCopyReturn(Err("create_dir_all"), fails)
                  /\ UNCHANGED <<fs, stack, files_stack>>
               \/ /\ CreateDirAllOk(fs, full_path)
                  /\ fails < MaxFail
                  /\ TreeCopyReturn(Err("create_dir_all"), fails + 1)
                  /\ UNCHANGED <<fs, stack, files_stack>>
    /\ UNCHANGED <<alters, paramVars, tree, cursor, todo, copied_files,
                   verify_result, printed, failed, skipped, legacyVars>>

\* Node::copy without the early return for only_folders
PrepareDoneNoReturn ==
    /\ pc = "prepare"
    /\ stack = <<>>
    /\ todo' = 1..Len(files_stack)
    /\ pc' = "files"
    /\ UNCHANGED <<locked, copied_result, fails>>
    /\ UNCHANGED <<fs, alters, paramVars, tree, cursor, stack, files_stack,
                   copied_files, verify_result, printed, failed, skipped, legacyVars>>

\* Node::copy after prepare_stack returned Ok: the only_folders return, or
\* the start of the parallel iteration over files_stack
PrepareDone ==
    /\ pc = "prepare"
    /\ stack = <<>>
    /\ IF only_folders
       THEN /\ TreeCopyReturn(Ok(<<>>), fails)
            /\ UNCHANGED todo
       ELSE /\ todo' = 1..Len(files_stack)
            /\ pc' = "files"
            /\ UNCHANGED <<locked, copied_result, fails>>
    /\ UNCHANGED <<fs, alters, paramVars, tree, cursor, stack, files_stack,
                   copied_files, verify_result, printed, failed, skipped, legacyVars>>

\* Node::copy, the closure of the parallel iteration for one (file_node,
\* full_path): the policy decision, the open, the byte copy, the push
CopyFile(i) ==
    /\ pc = "files"
    /\ i \in todo
    /\ todo' = todo \ {i}
    /\ LET file_node == files_stack[i].node
           full_path == files_stack[i].full_path
           data == fs[file_node].data
           rest == IoCopy(data, cursor[file_node])
       IN \E meta_fail \in {FALSE, option = "Update" /\ Exists(fs, full_path) /\ fails < MaxFail} :
          LET d == HandleCopyOption(fs, file_node, full_path, option, meta_fail)
          IN IF ~d.ok
             THEN \* handle_copy_option returned Err: return
                  /\ failed' = failed \cup {full_path}
                  /\ fails' = fails + 1
                  /\ UNCHANGED <<fs, cursor, copied_files, skipped>>
             ELSE IF ~d.do_copy
             THEN /\ skipped' = skipped \cup {full_path}
                  /\ UNCHANGED <<fs, cursor, copied_files, failed, fails>>
             ELSE \/ \* open_options.open failed: return
                     /\ ~OpenOk(fs, full_path, d.open)
                     /\ failed' = failed \cup {full_path}
                     /\ UNCHANGED <<fs, cursor, copied_files, skipped, fails>>
                  \/ /\ OpenOk(fs, full_path, d.open)
                     /\ fails < MaxFail
                     /\ failed' = failed \cup {full_path}
                     /\ fails' = fails + 1
                     /\ UNCHANGED <<fs, cursor, copied_files, skipped>>
                  \/ \* std::io::copy failed after k bytes: return
                     /\ OpenOk(fs, full_path, d.open)
                     /\ fails < MaxFail
                     /\ \E k \in 0..Len(rest) :
                           /\ k < Len(rest) \/ k = 0
                           /\ fs' = Put(fs, full_path, Written(SubSeq(rest, 1, k)))
                           /\ cursor' = [cursor EXCEPT ![file_node] = @ + k]
                     /\ failed' = failed \cup {full_path}
                     /\ fails' = fails + 1
                     /\ UNCHANGED <<copied_files, skipped>>
                  \/ \* std::io::copy returned Ok: push full_path
                     /\ OpenOk(fs, full_path, d.open)
                     /\ fs' = Put(fs, full_path, Written(rest))
                     /\ cursor' = [cursor EXCEPT ![file_node] = Len(data)]
                     /\ copied_files' = Append(copied_files, full_path)
                     /\ UNCHANGED <<failed, skipped, fails>>
    /\ UNCHANGED <<pc, alters, paramVars, tree, locked, stack, files_stack,
                   copied_result, verify_result, printed, legacyVars>>

\* Node::copy after the parallel iteration: Ok(copied_files)
CopyFilesDone ==
    /\ pc = "files"
    /\ todo = {}
    /\ TreeCopyReturn(Ok(copied_files), fails)
    /\ UNCHANGED <<fs, alters, paramVars, tree, cursor, stack, files_stack, todo,
                   copied_files, verify_result, printed, failed, skipped, legacyVars>>

\* Another process alters or removes a destination file after the copy
\* returned and before the verification.
AlterDestination ==
    /\ pc = "copied"
    /\ alters < MaxAlter
    /\ alters' = alters + 1
    /\ \E p \in {q \in DOMAIN fs : IsPrefix(DestRoot, q) /\ IsFile(fs, q)} :
          \/ fs' = Put(fs, p, Written(<<0>>))
          \/ fs' = Del(fs, p)
    /\ UNCHANGED <<pc, fails, paramVars, tree, locked, cursor, stack, files_stack,
                   todo, copied_files, copied_result, verify_result, printed, failed,
                   skipped, legacyVars>>

\* Node::verify: the destination path of a node the traversal reaches
RECURSIVE DestFullPath(_)
DestFullPath(n) ==
    IF n = source_path \/ (~into /\ Parent(n) = source_path)
    THEN GetFullPath(n, DestRoot)
    ELSE GetFullPath(n, DestFullPath(Parent(n)))

\* Node::verify: the file nodes the traversal reaches whose destination path
\* is in files_to_verify
VerifyStack(files_to_verify) ==
    {n \in FileNodes :
        /\ into \/ n # source_path
        /\ DestFullPath(n) \in Range(files_to_verify)}

\* Node::verify, the closure of the parallel iteration: the message written
\* for one file, "none" when the hashes are equal.
\* unreadable: the destination files that cannot be opened
VerifyMessage(f, file_node, dest_full_path, unreadable) ==
    IF ~Exists(f, dest_full_path) THEN "File not found"
    ELSE IF dest_full_path \in unreadable THEN "Error opening file"
    ELSE IF IsDir(f, dest_full_path) THEN "Error reading destination file"
    ELSE IF Sha256(f[file_node].data) # Sha256(f[dest_full_path].data) THEN "Hash mismatch"
    ELSE "none"

\* Node::verify returns Ok(()) whatever the closures wrote
NodeVerify(f, files_to_verify, unreadable) == Ok(<<>>)

\* execute_copy after copy, no_verify false: Tree::verify when the copy
\* succeeded. files_to_verify: the paths the copy returned.
TreeVerify ==
    /\ pc = "copied"
    /\ copied_result.ok
    /\ pc' = "done"
    /\ \E l \in LockResults(locked, fails < MaxFail) :
          IF ~l.ok
          THEN /\ verify_result' = Err("lock")
               /\ locked' = l.locked
               /\ fails' = fails + 1
               /\ UNCHANGED <<cursor, printed>>
          ELSE \E unreadable \in SUBSET Range(copied_result.val) :
                 /\ Cardinality(unreadable) <= MaxFail - fails
                 /\ \A p \in unreadable : IsFile(fs, p)
                 /\ printed' =
                       {[msg |-> VerifyMessage(fs, n, DestFullPath(n), unreadable),
                         path |-> DestFullPath(n)] : n \in VerifyStack(copied_result.val)}
                       \ {[msg |-> "none", path |-> DestFullPath(n)] :
                             n \in VerifyStack(copied_result.val)}
                 /\ cursor' = [n \in DOMAIN cursor |->
                                 IF n \in VerifyStack(copied_result.val)
                                    /\ Exists(fs, DestFullPath(n))
                                 THEN Len(fs[n].data) ELSE cursor[n]]
                 /\ \E u \in UnlockResults(l.locked, fails + Cardinality(unreadable) < MaxFail) :
                       /\ locked' = u.locked
                       /\ verify_result' =
                            IF u.ok THEN NodeVerify(fs, copied_result.val, unreadable)
                            ELSE Err("unlock")
                       /\ fails' = fails + Cardinality(unreadable) + (IF u.ok THEN 0 ELSE 1)
    /\ UNCHANGED <<fs, alters, paramVars, tree, stack, files_stack, todo,
                   copied_files, copied_result, failed, skipped, legacyVars>>

\* execute_copy after copy, no_verify true or the copy failed: no verification
SkipVerify ==
    /\ pc = "copied"
    /\ pc' = "done"
    /\ UNCHANGED <<fs, fails, alters, paramVars, tree, locked, cursor, stack,
                   files_stack, todo, copied_files, copied_result, verify_result,
                   printed, failed, skipped, legacyVars>>

Next ==
    \/ TreeNew
    \/ TreeCopy
    \/ PrepareStep
    \/ PrepareDone
    \/ \E i \in 1..Len(files_stack) : CopyFile(i)
    \/ CopyFilesDone
    \/ AlterDestination
    \/ TreeVerify
    \/ SkipVerify

Spec == Init /\ [][Next]_vars

\* ------------------------------------------------ do_copy: path based engine
\* the state of the tree engine, left alone by the path based engine
treeVars == <<tree, locked, cursor, files_stack, copied_files, skipped>>

\* main: with copy_target and a directory source the destination becomes
\* destination/<file name of the source>
DestinationPath ==
    IF into /\ IsDir(fs, source_path) THEN Join(DestRoot, Last(source_path)) ELSE DestRoot

\* fs_extra::dir::get_dir_content: the files below path, and the directories
\* below path with path itself first, parents before children
GetDirContent(f, path) ==
    IF ~Exists(f, path) THEN None
    ELSE LET below == {p \in DOMAIN f : IsPrefix(path, p)}
             dirs == {p \in below : IsDir(f, p)}
             files == {p \in below : IsFile(f, p)}
         IN Some([files |-> CHOOSE o \in Orders(files) : TRUE,
                  directories |-> CHOOSE o \in Orders(dirs) :
                        \A i, j \in 1..Len(o) : IsPrefix(o[i], o[j]) => i <= j])

\* the name of the file check_permissions creates and removes to test writing
NmR == <<"r">>

\* check_permissions(path, true): where the test file is created
TestFile(f, path) ==
    IF IsDir(f, path) THEN Join(path, NmR) ELSE Join(Parent(path), NmR)

\* do_copy: get_dir_content and the check of the source files
DoCopyStart ==
    /\ pc = "start"
    /\ LET c == GetDirContent(fs, source_path)
       IN \/ /\ ~c.some
             /\ copied_result' = Err("NotFound")
             /\ pc' = "copied"
             /\ UNCHANGED <<dir_content, fails>>
          \/ /\ c.some
             /\ dir_content' = c.val
             /\ pc' = "dest"
             /\ UNCHANGED <<copied_result, fails>>
          \/ \* check_permissions fails for a source file
             /\ c.some
             /\ c.val.files # <<>>
             /\ fails < MaxFail
             /\ fails' = fails + 1
             /\ dir_content' = c.val
             /\ copied_result' = Err("Error checking source files")
             /\ pc' = "copied"
    /\ UNCHANGED <<fs, alters, paramVars, stack, todo, verify_result, printed, failed,
                   treeVars, moveVars>>

\* do_copy: the destination exists, check_permissions(destination_path, true)
\* creates its test file; or the destination is created
DoCopyProbe ==
    /\ pc = "dest"
    /\ IF Exists(fs, DestinationPath)
       THEN /\ fs' = Put(fs, TestFile(fs, DestinationPath), Written(<<>>))
            /\ pc' = "probe"
            /\ UNCHANGED <<copied_result, fails, stack>>
       ELSE \/ /\ CreateDirAllOk(fs, DestinationPath)
               /\ fs' = CreateDirAll(fs, DestinationPath)
               /\ stack' = dir_content.directories
               /\ pc' = "dirs"
               /\ UNCHANGED <<copied_result, fails>>
            \/ /\ fails < MaxFail \/ ~CreateDirAllOk(fs, DestinationPath)
               /\ fails' = IF CreateDirAllOk(fs, DestinationPath) THEN fails + 1 ELSE fails
               /\ copied_result' = Err("Unable to create destination folder")
               /\ pc' = "copied"
               /\ UNCHANGED <<fs, stack>>
    /\ UNCHANGED <<alters, paramVars, todo, verify_result, printed, failed, dir_content,
                   treeVars, moveVars>>

\* do_copy: "Checks that the destination folder is empty": the error only
\* when read_dir succeeds, the option is None and an entry is listed
DestinationNotEmpty(f, destination_path, opt) ==
    IsDir(f, destination_path) /\ opt = "None" /\ ReadDir(f, destination_path) # {}

\* do_copy: check_permissions removes its test file; then the emptiness check
DoCopyCheckDestination ==
    /\ pc = "probe"
    /\ LET f == Del(fs, TestFile(fs, DestinationPath))
       IN /\ fs' = f
          /\ IF DestinationNotEmpty(f, DestinationPath, option)
             THEN /\ copied_result' = Err("AlreadyExists")
                  /\ pc' = "copied"
                  /\ UNCHANGED stack
             ELSE /\ stack' = dir_content.directories
                  /\ pc' = "dirs"
                  /\ UNCHANGED copied_result
    /\ UNCHANGED <<fails, alters, paramVars, todo, verify_result, printed, failed,
                   dir_content, treeVars, moveVars>>

\* do_copy: the files kept for the file phase under Complete and Update
Retain(f, files, source, destination_path, opt) ==
    LET DestinationFile(item) == JoinPath(destination_path, StripPrefix(item, source).val)
        Keep(item) ==
            IF opt = "Complete" THEN ~Exists(f, DestinationFile(item))
            ELSE IF opt = "Update"
            THEN ~Exists(f, DestinationFile(item))
                 \/ f[item].mtime > f[DestinationFile(item)].mtime
            ELSE TRUE
    IN SelectSeq(files, Keep)

\* copy_directories, one iteration of the for loop; after the last one
\* do_copy returns for only_folders or filters the files
CopyDirectoriesStep ==
    /\ pc = "dirs"
    /\ IF stack # <<>>
       THEN LET dir == Head(stack)
                destination_dir == JoinPath(DestinationPath, StripPrefix(dir, source_path).val)
            IN \/ /\ CreateDirAllOk(fs, destination_dir)
                  /\ fs' = CreateDirAll(fs, destination_dir)
                  /\ stack' = Tail(stack)
                  /\ UNCHANGED <<pc, copied_result, fails, dir_content, todo>>
               \/ \* create_dir_all failed: return Err
                  /\ fails < MaxFail \/ ~CreateDirAllOk(fs, destination_dir)
                  /\ fails' = IF CreateDirAllOk(fs, destination_dir) THEN fails + 1 ELSE fails
                  /\ copied_result' = Err("Failed to create directory")
                  /\ pc' = "copied"
                  /\ UNCHANGED <<fs, stack, dir_content, todo>>
       ELSE IF only_folders
       THEN /\ copied_result' = Ok([files |-> <<>>, directories |-> <<>>])
            /\ pc' = "copied"
            /\ UNCHANGED <<fs, stack, fails, dir_content, todo>>
       ELSE /\ dir_content' =
                 [dir_content EXCEPT
                    !.files = Retain(fs, @, source_path, DestinationPath, option)]
            /\ todo' = 1..Len(dir_content'.files)
            /\ pc' = "files"
            /\ UNCHANGED <<fs, stack, fails, copied_result>>
    /\ UNCHANGED <<alters, paramVars, verify_result, printed, failed, treeVars, moveVars>>

\* copy_files, the closure of the parallel iteration for one item: a failure
\* of std::fs::copy is written to stderr and nothing else
LegacyCopyFile(i) ==
    /\ pc = "files"
    /\ i \in todo
    /\ todo' = todo \ {i}
    /\ LET item == dir_content.files[i]
           destination_file == JoinPath(DestinationPath, StripPrefix(item, source_path).val)
       IN \/ /\ OpenTruncateOk(fs, destination_file)
             /\ fs' = Put(fs, destination_file, Written(fs[item].data))
             /\ UNCHANGED <<failed, fails>>
          \/ /\ fails < MaxFail \/ ~OpenTruncateOk(fs, destination_file)
             /\ fails' = IF OpenTruncateOk(fs, destination_file) THEN fails + 1 ELSE fails
             /\ failed' = failed \cup {destination_file}
             /\ UNCHANGED fs
    /\ UNCHANGED <<pc, alters, paramVars, stack, copied_result, verify_result, printed,
                   dir_content, treeVars, moveVars>>

\* do_copy after copy_files returned Ok(()): Ok(dir_content)
DoCopyReturn ==
    /\ pc = "files"
    /\ todo = {}
    /\ copied_result' = Ok(dir_content)
    /\ pc' = "copied"
    /\ UNCHANGED <<fs, fails, alters, paramVars, stack, todo, verify_result, printed,
                   failed, dir_content, treeVars, moveVars>>

\* verify_copy, the closure for one item: both hashes are taken from paths
\* derived from the item, which is a path of the source
VerifyCopyMessage(f, source, item, unreadable) ==
    LET source_file == JoinPath(source, StripPrefix(item, source).val)
    IN IF ~IsFile(f, source_file) \/ source_file \in unreadable
       THEN "Error calculating hash for source file"
       ELSE IF ~IsFile(f, item) \/ item \in unreadable
       THEN "Error calculating hash for destination file"
       ELSE IF Sha256(f[source_file].data) # Sha256(f[item].data)
       THEN "is different from the source"
       ELSE "none"

\* verify_copy: false iff some closure found the two hashes different
VerifyCopy(f, source, destination_dir_content, unreadable) ==
    \A i \in 1..Len(destination_dir_content.files) :
        VerifyCopyMessage(f, source, destination_dir_content.files[i], unreadable)
            # "is different from the source"

\* main after do_copy, no_verify false: verify_copy when the copy succeeded
LegacyVerify ==
    /\ pc = "copied"
    /\ copied_result.ok
    /\ pc' = "done"
    /\ \E unreadable \in SUBSET Range(copied_result.val.files) :
          /\ Cardinality(unreadable) <= MaxFail - fails
          /\ fails' = fails + Cardinality(unreadable)
          /\ printed' =
                {[msg |-> VerifyCopyMessage(fs, source_path, item, unreadable), path |-> item] :
                    item \in Range(copied_result.val.files)}
                \ {[msg |-> "none", path |-> item] : item \in Range(copied_result.val.files)}
          /\ verify_result' =
                IF VerifyCopy(fs, source_path, copied_result.val, unreadable)
                THEN Ok(<<>>) ELSE Err("different")
    /\ UNCHANGED <<fs, alters, paramVars, stack, todo, copied_result, failed, dir_content,
                   treeVars, moveVars>>

\* main after do_copy, no_verify true or the copy failed
LegacySkipVerify ==
    /\ pc = "copied"
    /\ pc' = "done"
    /\ UNCHANGED <<fs, fails, alters, paramVars, stack, todo, copied_result,
                   verify_result, printed, failed, dir_content, treeVars, moveVars>>

\* Another process alters or removes a destination file after do_copy
\* returned and before the verification.
LegacyAlterDestination ==
    /\ pc = "copied"
    /\ alters < MaxAlter
    /\ alters' = alters + 1
    /\ \E p \in {q \in DOMAIN fs : IsPrefix(DestRoot, q) /\ IsFile(fs, q)} :
          \/ fs' = Put(fs, p, Written(<<0>>))
          \/ fs' = Del(fs, p)
    /\ UNCHANGED <<pc, fails, paramVars, stack, todo, copied_result, verify_result,
                   printed, failed, dir_content, treeVars, moveVars>>

NextLegacyCopy ==
    \/ DoCopyStart
    \/ DoCopyProbe
    \/ DoCopyCheckDestination
    \/ CopyDirectoriesStep
    \/ \E i \in 1..Len(dir_content.files) : LegacyCopyFile(i)
    \/ DoCopyReturn
    \/ LegacyAlterDestination
    \/ LegacyVerify
    \/ LegacySkipVerify

SpecLegacyCopy == Init /\ [][NextLegacyCopy]_vars

\* ------------------------------------------------------ move orchestrators
\* The two move commands of the repository: execute_move (commands/move.rs)
\* and execute (commands/file/move.rs). Both index the source, copy it under
\* mode None, verify the copies and remove the source.

InitMove ==
    /\ variant \in {"execute_move", "execute"}
    /\ InitMoveVars
    /\ \E s \in SourceTrees, d \in DestTrees :
          /\ fs = Merge(s, d)
          /\ source_path = SourceOf(s)
          /\ fs0 = Merge(s, d)
    /\ pc = "start"
    /\ fails = 0
    /\ alters = 0
    /\ option = "None"
    /\ into = FALSE
    /\ only_folders = FALSE
    /\ InitRun

\* what the move commands leave alone
notMoveVars == <<paramVars, variant, ignore, fs0, tree, locked, cursor, stack,
                 files_stack, copied_result, verify_result, printed, failed, skipped,
                 dir_content>>

\* an error message of a shared list of errors
OperationError(op, path) == [op |-> op, path |-> path]

\* every early return of a move command
MoveReturn(how) ==
    /\ outcome' = how
    /\ pc' = "done"

\* an index_entries that always starts from the root itself
IndexEntriesStartRoot ==
    /\ pc = "start"
    /\ ~path_content.indexed
    /\ path_content' = [path_content EXCEPT !.indexed = TRUE]
    /\ list_to_explore' = <<source_path>>
    /\ pc' = "index"
    /\ UNCHANGED <<fails, outcome>>
    /\ UNCHANGED <<fs, alters, todo, copied_files, copy_list_of_errors,
                   remove_list_of_errors, dirs_ok, files_ok, notMoveVars>>

\* index_entries, up to its loop: the guard on indexed and the first
\* work-list; an entry read_dir fails to read is left out of the list
IndexEntriesStart ==
    /\ pc = "start"
    /\ ~path_content.indexed
    /\ path_content' = [path_content EXCEPT !.indexed = TRUE]
    /\ IF into \/ ~IsDir(fs, source_path)
       THEN /\ list_to_explore' = <<source_path>>
            /\ pc' = "index"
            /\ UNCHANGED <<fails, outcome>>
       ELSE \/ /\ list_to_explore' \in Orders(ReadDir(fs, source_path))
               /\ pc' = "index"
               /\ UNCHANGED <<fails, outcome>>
            \/ /\ fails < MaxFail
               /\ fails' = fails + 1
               /\ \E lost \in ReadDir(fs, source_path) :
                     list_to_explore' \in Orders(ReadDir(fs, source_path) \ {lost})
               /\ pc' = "index"
               /\ UNCHANGED outcome
            \/ /\ fails < MaxFail
               /\ fails' = fails + 1
               /\ MoveReturn("index_error")
               /\ UNCHANGED list_to_explore
    /\ UNCHANGED <<fs, alters, todo, copied_files, copy_list_of_errors,
                   remove_list_of_errors, dirs_ok, files_ok, notMoveVars>>

\* an increment_entries that forgets to count
IncrementEntriesNone(pcnt) == pcnt

\* PathContent::increment_entries
IncrementEntries(pcnt) == [pcnt EXCEPT !.entries = @ + 1]

\* an index_entries that does not explore the directories it ignores
IndexEntriesStepSkip ==
    /\ pc = "index"
    /\ list_to_explore # <<>>
    /\ LET item == Last(list_to_explore)
           rest == SubSeq(list_to_explore, 1, Len(list_to_explore) - 1)
           with_dir == IF ignore = "Directories" THEN path_content
                       ELSE IncrementEntries(
                               [path_content EXCEPT !.list_of_dirs = Append(@, item)])
       IN IF IsDir(fs, item)
          THEN \/ /\ path_content' = with_dir
                  /\ \E o \in Orders(IF ignore = "Directories" THEN {} ELSE ReadDir(fs, item)) :
                        list_to_explore' = rest \o o
                  /\ UNCHANGED <<pc, fails, outcome>>
               \/ /\ fails < MaxFail
                  /\ fails' = fails + 1
                  /\ path_content' = with_dir
                  /\ list_to_explore' = rest
                  /\ MoveReturn("index_error")
          ELSE IF IsFile(fs, item)
          THEN IF ignore = "Files"
               THEN /\ list_to_explore' = rest
                    /\ UNCHANGED <<path_content, pc, fails, outcome>>
               ELSE \/ /\ path_content' = IncrementEntries(
                              [path_content EXCEPT
                                  !.size = @ + Len(fs[item].data),
                                  !.list_of_files = Append(@, item)])
                       /\ list_to_explore' = rest
                       /\ UNCHANGED <<pc, fails, outcome>>
                    \/ /\ fails < MaxFail
                       /\ fails' = fails + 1
                       /\ list_to_explore' = rest
                       /\ MoveReturn("index_error")
                       /\ UNCHANGED path_content
          ELSE /\ list_to_explore' = rest
               /\ MoveReturn("index_error")
               /\ UNCHANGED <<path_content, fails>>
    /\ UNCHANGED <<fs, alters, todo, copied_files, copy_list_of_errors,
                   remove_list_of_errors, dirs_ok, files_ok, notMoveVars>>

\* an index_entries that adds the size of the files it ignores
IndexEntriesStepSized ==
    /\ pc = "index"
    /\ list_to_explore # <<>>
    /\ LET item == Last(list_to_explore)
           rest == SubSeq(list_to_explore, 1, Len(list_to_explore) - 1)
           with_dir == IF ignore = "Directories" THEN path_content
                       ELSE IncrementEntries(
                               [path_content EXCEPT !.list_of_dirs = Append(@, item)])
       IN IF IsDir(fs, item)
          THEN \/ /\ path_content' = with_dir
                  /\ \E o \in Orders(ReadDir(fs, item)) : list_to_explore' = rest \o o
                  /\ UNCHANGED <<pc, fails, outcome>>
               \/ /\ fails < MaxFail
                  /\ fails' = fails + 1
                  /\ path_content' = with_dir
                  /\ list_to_explore' = rest
                  /\ MoveReturn("index_error")
          ELSE IF IsFile(fs, item)
          THEN IF ignore = "Files"
               THEN /\ list_to_explore' = rest
                    /\ path_content' = [path_content EXCEPT !.size = @ + Len(fs[item].data)]
                    /\ UNCHANGED <<pc, fails, outcome>>
               ELSE \/ /\ path_content' = IncrementEntries(
                              [path_content EXCEPT
                                  !.size = @ + Len(fs[item].data),
                                  !.list_of_files = Append(@, item)])
                       /\ list_to_explore' = rest
                       /\ UNCHANGED <<pc, fails, outcome>>
                    \/ /\ fails < MaxFail
                       /\ fails' = fails + 1
                       /\ list_to_explore' = rest
                       /\ MoveReturn("index_error")
                       /\ UNCHANGED path_content
          ELSE /\ list_to_explore' = rest
               /\ MoveReturn("index_error")
               /\ UNCHANGED <<path_content, fails>>
    /\ UNCHANGED <<fs, alters, todo, copied_files, copy_list_of_errors,
                   remove_list_of_errors, dirs_ok, files_ok, notMoveVars>>

\* an index_entries that reads a directory from the work-list with last()
\* and leaves it there
IndexEntriesStepPeek ==
    /\ pc = "index"
    /\ list_to_explore # <<>>
    /\ LET item == Last(list_to_explore)
           rest == SubSeq(list_to_explore, 1, Len(list_to_explore) - 1)
           with_dir == IF ignore = "Directories" THEN path_content
                       ELSE IncrementEntries(
                               [path_content EXCEPT !.list_of_dirs = Append(@, item)])
       IN IF IsDir(fs, item)
          THEN \/ /\ path_content' = with_dir
                  /\ \E o \in Orders(ReadDir(fs, item)) :
                        list_to_explore' = list_to_explore \o o
                  /\ UNCHANGED <<pc, fails, outcome>>
               \/ /\ fails < MaxFail
                  /\ fails' = fails + 1
                  /\ path_content' = with_dir
                  /\ list_to_explore' = rest
                  /\ MoveReturn("index_error")
          ELSE IF IsFile(fs, item)
          THEN IF ignore = "Files"
               THEN /\ list_to_explore' = rest
                    /\ UNCHANGED <<path_content, pc, fails, outcome>>
               ELSE \/ /\ path_content' = IncrementEntries(
                              [path_content EXCEPT
                                  !.size = @ + Len(fs[item].data),
                                  !.list_of_files = Append(@, item)])
                       /\ list_to_explore' = rest
                       /\ UNCHANGED <<pc, fails, outcome>>
                    \/ /\ fails < MaxFail
                       /\ fails' = fails + 1
                       /\ list_to_explore' = rest
                       /\ MoveReturn("index_error")
                       /\ UNCHANGED path_content
          ELSE /\ list_to_explore' = rest
               /\ MoveReturn("index_error")
               /\ UNCHANGED <<path_content, fails>>
    /\ UNCHANGED <<fs, alters, todo, copied_files, copy_list_of_errors,
                   remove_list_of_errors, dirs_ok, files_ok, notMoveVars>>

\* index_entries: one turn of the loop on the work-list
IndexEntriesStep ==
    /\ pc = "index"
    /\ list_to_explore # <<>>
    /\ LET item == Last(list_to_explore)
           rest == SubSeq(list_to_explore, 1, Len(list_to_explore) - 1)
           with_dir == IF ignore = "Directories" THEN path_content
                       ELSE IncrementEntries(
                               [path_content EXCEPT !.list_of_dirs = Append(@, item)])
       IN IF IsDir(fs, item)
          THEN \/ /\ path_content' = with_dir
                  /\ \E o \in Orders(ReadDir(fs, item)) : list_to_explore' = rest \o o
                  /\ UNCHANGED <<pc, fails, outcome>>
               \/ /\ fails < MaxFail
                  /\ fails' = fails + 1
                  /\ path_content' = with_dir
                  /\ list_to_explore' = rest
                  /\ MoveReturn("index_error")
          ELSE IF IsFile(fs, item)
          THEN IF ignore = "Files"
               THEN /\ list_to_explore' = rest
                    /\ UNCHANGED <<path_content, pc, fails, outcome>>
               ELSE \/ /\ path_content' = IncrementEntries(
                              [path_content EXCEPT
                                  !.size = @ + Len(fs[item].data),
                                  !.list_of_files = Append(@, item)])
                       /\ list_to_explore' = rest
                       /\ UNCHANGED <<pc, fails, outcome>>
                    \/ /\ fails < MaxFail
                       /\ fails' = fails + 1
                       /\ list_to_explore' = rest
                       /\ MoveReturn("index_error")
                       /\ UNCHANGED path_content
          ELSE /\ list_to_explore' = rest
               /\ MoveReturn("index_error")
               /\ UNCHANGED <<path_content, fails>>
    /\ UNCHANGED <<fs, alters, todo, copied_files, copy_list_of_errors,
                   remove_list_of_errors, dirs_ok, files_ok, notMoveVars>>

\* index_entries returns Ok; the move stops when nothing was indexed
IndexEntriesDone ==
    /\ pc = "index"
    /\ list_to_explore = <<>>
    /\ IF path_content.entries = 0
       THEN MoveReturn("nothing_to_move")
       ELSE pc' = "dest" /\ UNCHANGED outcome
    /\ UNCHANGED <<fs, fails, alters, todo, copied_files, path_content, list_to_explore,
                   copy_list_of_errors, remove_list_of_errors, dirs_ok, files_ok,
                   notMoveVars>>

\* execute_move: the destination must be readable as a directory and empty,
\* and is created when absent
ExecuteMoveDestination(f) ==
    IF Exists(f, DestRoot)
    THEN IF ~IsDir(f, DestRoot) THEN "destination_unreadable"
         ELSE IF ReadDir(f, DestRoot) # {} THEN "destination_not_empty"
         ELSE "ok"
    ELSE "create"

\* execute: the destination must be an empty directory, and is created when
\* absent and the source is a directory
ExecuteDestination(f) ==
    IF Exists(f, DestRoot)
    THEN IF IsDir(f, DestRoot)
         THEN IF ReadDir(f, DestRoot) # {} THEN "destination_not_empty" ELSE "ok"
         ELSE "destination_not_a_folder"
    ELSE IF IsDir(f, source_path) THEN "create" ELSE "ok"

MoveCheckDestination ==
    /\ pc = "dest"
    /\ LET d == IF variant = "execute_move" THEN ExecuteMoveDestination(fs)
                ELSE ExecuteDestination(fs)
       IN \/ /\ d = "ok"
             /\ pc' = "copy_dirs"
             /\ UNCHANGED <<fs, fails, outcome>>
          \/ /\ d = "create"
             /\ CreateDirAllOk(fs, DestRoot)
             /\ fs' = CreateDirAll(fs, DestRoot)
             /\ pc' = "copy_dirs"
             /\ UNCHANGED <<fails, outcome>>
          \/ /\ d \in {"ok", "create"}
             /\ fails < MaxFail
             /\ fails' = fails + 1
             /\ MoveReturn("destination_error")
             /\ UNCHANGED fs
          \/ /\ d \notin {"ok", "create"}
             /\ MoveReturn(d)
             /\ UNCHANGED <<fs, fails>>
    /\ UNCHANGED <<alters, todo, copied_files, path_content, list_to_explore,
                   copy_list_of_errors, remove_list_of_errors, dirs_ok, files_ok,
                   notMoveVars>>

\* the destination of an indexed entry: destination_path joined with the
\* entry's path relative to the source
MoveTarget(p) ==
    LET rel == StripPrefix(p, source_path)
    IN IF rel.some THEN Some(JoinPath(DestRoot, rel.val)) ELSE None

\* create_dir_all of every target of dirs, in any order
RECURSIVE CreateAll(_, _)
CreateAll(f, dirs) ==
    IF dirs = {} THEN f
    ELSE LET d == CHOOSE x \in dirs : TRUE
         IN CreateAll(CreateDirAll(f, MoveTarget(d).val), dirs \ {d})

\* copy_dirs: every directory of the index is created under the destination;
\* a failure appends one error for that directory and makes the result false
CopyDirs ==
    LET dirs == Range(path_content.list_of_dirs)
        refused == {d \in dirs : ~MoveTarget(d).some \/ ~CreateDirAllOk(fs, MoveTarget(d).val)}
    IN \E broken \in SUBSET (dirs \ refused) :
          /\ Cardinality(broken) <= MaxFail - fails
          /\ fails' = fails + Cardinality(broken)
          /\ fs' = CreateAll(fs, dirs \ (refused \cup broken))
          /\ \E o \in Orders(refused \cup broken) :
                copy_list_of_errors' = copy_list_of_errors \o
                    [i \in 1..Len(o) |-> OperationError("copy_dir", o[i])]
          /\ dirs_ok' = (refused \cup broken = {})

\* the directory step of both move commands: with no directory indexed,
\* execute_move leaves dirs_ok false and execute sets it true
MoveCopyDirs ==
    /\ pc = "copy_dirs"
    /\ IF path_content.list_of_dirs = <<>>
       THEN /\ dirs_ok' = (variant = "execute")
            /\ UNCHANGED <<fs, fails, copy_list_of_errors>>
       ELSE CopyDirs
    /\ pc' = "copy_files"
    /\ UNCHANGED <<alters, todo, copied_files, path_content, list_to_explore,
                   remove_list_of_errors, files_ok, outcome, notMoveVars>>

\* the file step of both move commands: copy_files runs when the directory
\* step succeeded and a file is indexed
MoveCopyFilesStart ==
    /\ pc = "copy_files"
    /\ IF dirs_ok /\ path_content.list_of_files # <<>>
       THEN /\ todo' = 1..Len(path_content.list_of_files)
            /\ pc' = "copying"
       ELSE /\ pc' = "gate"
            /\ UNCHANGED todo
    /\ UNCHANGED <<fs, fails, alters, copied_files, path_content, list_to_explore,
                   copy_list_of_errors, remove_list_of_errors, dirs_ok, files_ok,
                   outcome, notMoveVars>>

\* copy_files under mode None, one file: the destination is opened
\* create-new-exclusive and receives the bytes of the source; success adds
\* the pair to the copied list, failure appends one error
CopyFilesItem(i) ==
    LET src == path_content.list_of_files[i]
        dst == MoveTarget(src)
        can == IsFile(fs, src) /\ dst.some /\ OpenCreateNewOk(fs, dst.val)
    IN \/ /\ can
          /\ fs' = Put(fs, dst.val, Written(fs[src].data))
          /\ copied_files' = Append(copied_files, <<src, dst.val>>)
          /\ UNCHANGED <<fails, copy_list_of_errors>>
       \/ /\ ~can \/ fails < MaxFail
          /\ fails' = IF can THEN fails + 1 ELSE fails
          /\ copy_list_of_errors' =
                Append(copy_list_of_errors, OperationError("copy_file", src))
          /\ UNCHANGED <<fs, copied_files>>

MoveCopyFile(i) ==
    /\ pc = "copying"
    /\ i \in todo
    /\ todo' = todo \ {i}
    /\ CopyFilesItem(i)
    /\ UNCHANGED <<pc, alters, path_content, list_to_explore, remove_list_of_errors,
                   dirs_ok, files_ok, outcome, notMoveVars>>

\* another process alters a copied file before the verification reads it
MoveAlterDestination ==
    /\ pc = "copying"
    /\ alters < MaxAlter
    /\ alters' = alters + 1
    /\ \E i \in 1..Len(copied_files) :
          LET dst == copied_files[i][2]
          IN /\ IsFile(fs, dst)
             /\ fs' = Put(fs, dst, FileEntry(<<0>> \o fs[dst].data, fs[dst].mtime))
    /\ UNCHANGED <<pc, fails, todo, copied_files, path_content, list_to_explore,
                   copy_list_of_errors, remove_list_of_errors, dirs_ok, files_ok,
                   outcome, notMoveVars>>

\* verify_copy: the pairs whose hashes cannot be computed or differ
VerifyCopyFailures(f, pairs) ==
    {i \in 1..Len(pairs) :
        \/ ~IsFile(f, pairs[i][1])
        \/ ~IsFile(f, pairs[i][2])
        \/ Sha256(f[pairs[i][1]].data) # Sha256(f[pairs[i][2]].data)}

\* verify_copy on the pairs copy_files returned: one error per failing pair
MoveVerifyCopy ==
    /\ pc = "copying"
    /\ todo = {}
    /\ \E o \in Orders(VerifyCopyFailures(fs, copied_files)) :
          copy_list_of_errors' = copy_list_of_errors \o
              [k \in 1..Len(o) |-> OperationError("verify", copied_files[o[k]][1])]
    /\ pc' = "gate"
    /\ UNCHANGED <<fs, fails, alters, todo, copied_files, path_content, list_to_explore,
                   remove_list_of_errors, dirs_ok, files_ok, outcome, notMoveVars>>

\* utils::add_error: the error is pushed when lock() returns Ok, and nothing
\* is done when the Mutex is poisoned
AddError(list_of_errors, is_poisoned, error) ==
    IF ~is_poisoned THEN Append(list_of_errors, error) ELSE list_of_errors

\* execute: Arc::try_unwrap(list).into_inner().unwrap_or(vec![])
IntoInnerUnwrapOr(list_of_errors, is_poisoned) ==
    IF is_poisoned THEN <<>> ELSE list_of_errors

\* after the first phase: execute aborts when an error was recorded,
\* execute_move prints the errors and goes on
MoveGate ==
    /\ pc = "gate"
    /\ IF IntoInnerUnwrapOr(copy_list_of_errors, poisoned) # <<>> /\ variant = "execute"
       THEN MoveReturn("copy_errors")
       ELSE pc' = "remove_files" /\ UNCHANGED outcome
    /\ UNCHANGED <<fs, fails, alters, todo, copied_files, path_content, list_to_explore,
                   copy_list_of_errors, remove_list_of_errors, dirs_ok, files_ok,
                   notMoveVars>>

\* the second phase starts: remove_files runs when a file is indexed, its
\* shared flag says whether every removal succeeded
MoveRemoveFilesStart ==
    /\ pc = "remove_files"
    /\ IF path_content.list_of_files = <<>>
       THEN /\ files_ok' = FALSE
            /\ pc' = "push_root"
            /\ UNCHANGED todo
       ELSE /\ files_ok' = TRUE
            /\ todo' = 1..Len(path_content.list_of_files)
            /\ pc' = "removing_files"
    /\ UNCHANGED <<fs, fails, alters, copied_files, path_content, list_to_explore,
                   copy_list_of_errors, remove_list_of_errors, dirs_ok, outcome,
                   notMoveVars>>

\* remove_files, one file: a failure appends one error and clears the flag
RemoveFilesItem(i) ==
    LET p == path_content.list_of_files[i]
    IN \/ /\ IsFile(fs, p)
          /\ fs' = Del(fs, p)
          /\ UNCHANGED <<fails, remove_list_of_errors, files_ok>>
       \/ /\ ~IsFile(fs, p) \/ fails < MaxFail
          /\ fails' = IF IsFile(fs, p) THEN fails + 1 ELSE fails
          /\ remove_list_of_errors' =
                Append(remove_list_of_errors, OperationError("remove_file", p))
          /\ files_ok' = FALSE
          /\ UNCHANGED fs

MoveRemoveFile(i) ==
    /\ pc = "removing_files"
    /\ i \in todo
    /\ todo' = todo \ {i}
    /\ RemoveFilesItem(i)
    /\ UNCHANGED <<pc, alters, copied_files, path_content, list_to_explore,
                   copy_list_of_errors, dirs_ok, outcome, notMoveVars>>

\* the source root is appended to the directories to remove: always by
\* execute_move, only when it is a directory by execute
PushSourceRoot(pcnt) ==
    IF (variant = "execute_move" \/ IsDir(fs, source_path))
       /\ source_path \notin Range(pcnt.list_of_dirs)
    THEN [pcnt EXCEPT !.list_of_dirs = Append(@, source_path)]
    ELSE pcnt

\* a second phase that calls remove_dirs whatever remove_files returned
MovePushRootAlways ==
    /\ \/ pc = "push_root"
       \/ pc = "removing_files" /\ todo = {}
    /\ path_content' = PushSourceRoot(path_content)
    /\ IF path_content'.list_of_dirs # <<>>
       THEN /\ todo' = 1..Len(path_content'.list_of_dirs)
            /\ pc' = "removing_dirs"
       ELSE /\ pc' = "report"
            /\ UNCHANGED todo
    /\ UNCHANGED <<fs, fails, alters, copied_files, list_to_explore,
                   copy_list_of_errors, remove_list_of_errors, dirs_ok, files_ok,
                   outcome, notMoveVars>>

\* remove_files has returned (or was not called): the root is appended and
\* remove_dirs runs when every file was removed
MovePushRoot ==
    /\ \/ pc = "push_root"
       \/ pc = "removing_files" /\ todo = {}
    /\ path_content' = PushSourceRoot(path_content)
    /\ IF files_ok /\ path_content'.list_of_dirs # <<>>
       THEN /\ todo' = 1..Len(path_content'.list_of_dirs)
            /\ pc' = "removing_dirs"
       ELSE /\ pc' = "report"
            /\ UNCHANGED todo
    /\ UNCHANGED <<fs, fails, alters, copied_files, list_to_explore,
                   copy_list_of_errors, remove_list_of_errors, dirs_ok, files_ok,
                   outcome, notMoveVars>>

\* a remove_dirs that removes the operation's root as directly as the others
RemoveDirsItemNoWait(i) ==
    LET p == path_content.list_of_dirs[i]
        can == IsDir(fs, p) /\ ReadDir(fs, p) = {}
    IN \/ /\ can
          /\ fs' = Del(fs, p)
          /\ UNCHANGED <<fails, remove_list_of_errors>>
       \/ /\ ~can \/ fails < MaxFail
          /\ fails' = IF can THEN fails + 1 ELSE fails
          /\ remove_list_of_errors' =
                Append(remove_list_of_errors, OperationError("remove_dir", p))
          /\ UNCHANGED fs

\* remove_dirs, one directory: the operation's root waits until read_dir
\* reports it empty, any other directory is removed directly; a failure
\* appends one error
RemoveDirsItem(i) ==
    LET p == path_content.list_of_dirs[i]
        can == IsDir(fs, p) /\ ReadDir(fs, p) = {}
    IN /\ (p = source_path /\ IsDir(fs, p)) => ReadDir(fs, p) = {}
       /\ \/ /\ can
             /\ fs' = Del(fs, p)
             /\ UNCHANGED <<fails, remove_list_of_errors>>
          \/ /\ ~can \/ fails < MaxFail
             /\ fails' = IF can THEN fails + 1 ELSE fails
             /\ remove_list_of_errors' =
                   Append(remove_list_of_errors, OperationError("remove_dir", p))
             /\ UNCHANGED fs

MoveRemoveDir(i) ==
    /\ pc = "removing_dirs"
    /\ i \in todo
    /\ todo' = todo \ {i}
    /\ RemoveDirsItem(i)
    /\ UNCHANGED <<pc, alters, copied_files, path_content, list_to_explore,
                   copy_list_of_errors, dirs_ok, files_ok, outcome, notMoveVars>>

\* the end of the command: the summary line, or the errors of the second phase
MoveReport ==
    /\ \/ pc = "report"
       \/ pc = "removing_dirs" /\ todo = {}
    /\ MoveReturn(IF remove_list_of_errors = <<>> THEN "moved" ELSE "remove_errors")
    /\ UNCHANGED <<fs, fails, alters, todo, copied_files, path_content, list_to_explore,
                   copy_list_of_errors, remove_list_of_errors, dirs_ok, files_ok,
                   notMoveVars>>

NextMove ==
    \/ IndexEntriesStart
    \/ IndexEntriesStep
    \/ IndexEntriesDone
    \/ MoveCheckDestination
    \/ MoveCopyDirs
    \/ MoveCopyFilesStart
    \/ \E i \in todo : MoveCopyFile(i)
    \/ MoveAlterDestination
    \/ MoveVerifyCopy
    \/ MoveGate
    \/ MoveRemoveFilesStart
    \/ \E i \in todo : MoveRemoveFile(i)
    \/ MovePushRoot
    \/ \E i \in todo : MoveRemoveDir(i)
    \/ MoveReport

SpecMove == InitMove /\ [][NextMove]_vars

\* ------------------------------------------------------- claims about move
\* every entry of the source as it was when the command started is still there
SourceIntact ==
    \A p \in DOMAIN fs0 : IsPrefix(source_path, p) => (Exists(fs, p) /\ fs[p] = fs0[p])

\* the move is in its second phase (remove_files, remove_dirs) or beyond it
InRemovePhase ==
    pc \in {"remove_files", "removing_files", "push_root", "removing_dirs", "report"}
    \/ (pc = "done" /\ outcome \in {"moved", "remove_errors"})

\* C1: in a move, the remove phase is entered only if the first phase (copy
\* of the directories, copy of the files, verification) recorded no error:
\* whenever it recorded one, nothing of the source is removed and the source
\* tree is intact when the run ends.
C1_RemoveOnlyAfterCleanCopy ==
    copy_list_of_errors # <<>> => (~InRemovePhase /\ SourceIntact)

\* C2: in a move, a source file is deleted only after that same file was
\* written to the destination in the same run: every file missing from the
\* source has a pair in the copied list and its destination copy exists, also
\* when no directory was indexed and when the directory step failed.
C2_DeletedOnlyAfterWritten ==
    \A p \in DOMAIN fs0 :
        (IsPrefix(source_path, p) /\ fs0[p].kind = "file" /\ ~Exists(fs, p)) =>
            \E i \in 1..Len(copied_files) :
                copied_files[i][1] = p /\ IsFile(fs, copied_files[i][2])

\* C3: after a move whose copy, verification and remove phases recorded no
\* error, every indexed source file is gone from its source path and its
\* destination path holds the same content.
C3_MovedFilesArrive ==
    (pc = "done" /\ outcome = "moved" /\ copy_list_of_errors = <<>>
        /\ remove_list_of_errors = <<>>) =>
        \A i \in 1..Len(path_content.list_of_files) :
            LET p == path_content.list_of_files[i]
            IN /\ ~Exists(fs, p)
               /\ MoveTarget(p).some
               /\ IsFile(fs, MoveTarget(p).val)
               /\ fs[MoveTarget(p).val].data = fs0[p].data

\* ------------------------------------------- claims about the copy engines
\* the destination root of do_copy existed when the command started and was
\* not an empty directory
DestinationRootOccupied ==
    /\ Exists(fs0, DestinationPath)
    /\ ~(IsDir(fs0, DestinationPath) /\ ReadDir(fs0, DestinationPath) = {})

\* nothing at or below the destination given on the command line was created,
\* written or removed since the command started (by the command, as long as
\* no other process altered the destination)
DestinationUntouched ==
    \A p \in DOMAIN fs \cup DOMAIN fs0 :
        IsPrefix(DestRoot, p) => (Exists(fs, p) /\ Exists(fs0, p) /\ fs[p] = fs0[p])

\* C4: copy with mode None fails with a destination-not-empty error whenever
\* the destination root exists and is not an empty directory, before any
\* source file is locked and before anything is created or written under the
\* destination; with an absent or empty destination root the precondition
\* passes.
C4_NoneNeedsEmptyDestination ==
    /\ (option = "None" /\ DestinationRootOccupied) =>
          /\ pc \notin {"dirs", "files"}
          /\ pc \in {"copied", "done"} =>
                (~copied_result.ok /\ copied_result.err \in
                    {"AlreadyExists", "NotFound", "Error checking source files"})
          /\ locked = {}
          /\ alters = 0 => DestinationUntouched
    /\ (option = "None" /\ ~DestinationRootOccupied /\ pc \in {"copied", "done"}) =>
          copied_result.err # "AlreadyExists"

\* the destination root given on the command line was absent or an empty
\* directory when the command started
DestinationWasEmpty ==
    ~Exists(fs0, DestRoot) \/ (IsDir(fs0, DestRoot) /\ ReadDir(fs0, DestRoot) = {})

\* where an entry of the source belongs under the destination: its path
\* relative to the source, or to the parent of the source with copy_target
MirrorPath(p) ==
    JoinPath(DestRoot,
             StripPrefix(p, IF into THEN Parent(source_path) ELSE source_path).val)

\* C5: after a copy under mode None into an empty destination, the
\* destination is a structural mirror of the source: every file and every
\* directory of the source subtree, whatever its name, has an entry of the
\* same kind at the same relative path of the destination.
C5_StructuralMirror ==
    (pc \in {"copied", "done"} /\ copied_result.ok /\ option = "None"
        /\ ~only_folders /\ DestinationWasEmpty /\ fails = 0 /\ alters = 0) =>
        \A p \in DOMAIN fs0 :
            (IsPrefix(source_path, p) /\ (into \/ p # source_path)) =>
                (Exists(fs, MirrorPath(p)) /\ fs[MirrorPath(p)].kind = fs0[p].kind)

\* C6: every destination path the copy reports as written holds, when the
\* copy returns, exactly the full content of its source file.
C6_WrittenHoldsSource ==
    (pc = "copied" /\ copied_result.ok /\ alters = 0) =>
        \A i \in 1..Len(copied_result.val) :
            /\ IsFile(fs, copied_result.val[i])
            /\ \E k \in 1..Len(files_stack) :
                  /\ files_stack[k].full_path = copied_result.val[i]
                  /\ Sha256(fs[copied_result.val[i]].data) =
                        Sha256(fs0[files_stack[k].node].data)

\* the copy has returned at least two written paths
C6_Witness ==
    /\ pc = "copied"
    /\ copied_result.ok
    /\ alters = 0
    /\ Len(copied_result.val) >= 2

\* the destination of an item of do_copy's list
DestinationFile(item) == JoinPath(DestinationPath, StripPrefix(item, source_path).val)

\* C7: verify reports a failure for exactly the copied pairs whose
\* destination differs from the source or is missing or unreadable: one
\* destination altered after the copy gives exactly one error, for that
\* pair, and matching pairs give none.
C7_VerifyReportsExactlyTheDifferent ==
    (pc = "done" /\ verify_result # Pending /\ fails = 0 /\ failed = {}) =>
        \A item \in Range(copied_result.val.files) :
            (\E m \in printed : m.path = item)
                <=> (\/ ~IsFile(fs, DestinationFile(item))
                     \/ fs[DestinationFile(item)].data # fs[item].data)

\* C8: in the file phase of a copy the failure of one file is recorded as
\* exactly one error for that file, the file is not among the copied paths,
\* and every other file is still copied.
C8_OneErrorPerFailedFile ==
    /\ pc \in {"files", "copied"} =>
          \A p \in failed :
              /\ Cardinality({m \in printed : m.path = p}) = 1
              /\ p \notin Range(copied_files)
    /\ (pc = "copied" /\ copied_result.ok /\ ~only_folders) =>
          \A k \in 1..Len(files_stack) :
              files_stack[k].full_path \notin failed \cup skipped
                  => files_stack[k].full_path \in Range(copied_files)

\* C9: the list the copy returns holds exactly the files whose bytes were
\* written in this run: no file the policy skipped, no file whose copy
\* failed, and no path twice.
C9_ReturnsExactlyTheWritten ==
    (pc \in {"copied", "done"} /\ copied_result.ok) =>
        LET files == copied_result.val.files
        IN /\ \A i \in 1..Len(files) : DestinationFile(files[i]) \notin failed
           /\ \A i, j \in 1..Len(files) : files[i] = files[j] => i = j

\* C10: when one destination directory cannot be created, the failure is
\* recorded for that directory only: the copy is not aborted and every other
\* directory of the source is still created.
C10_DirectoryFailureIsLocal ==
    pc \in {"copied", "done"} =>
        /\ copied_result.err # "create_dir_all"
        /\ (alters = 0 /\ (copied_result.ok \/ copied_result.err = "create_dir_all")) =>
              \A n \in Nodes :
                  (tree.val[n].kind = "dir" /\ (into \/ n # source_path)
                      /\ CreateDirAllOk(fs, DestFullPath(n)))
                      => IsDir(fs, DestFullPath(n))

\* ----------------------------------------- claims about the conflict policy
\* the destination of files_stack[k] was absent when the command started
WasAbsent(k) == ~Exists(fs0, files_stack[k].full_path)

\* the source of files_stack[k] was modified after its destination
SourceIsNewer(k) ==
    /\ Exists(fs0, files_stack[k].full_path)
    /\ fs0[files_stack[k].node].mtime > fs0[files_stack[k].full_path].mtime

\* files_stack[k] was written: its path is returned and holds the source bytes
WasWritten(k) ==
    /\ files_stack[k].full_path \in Range(copied_files)
    /\ IsFile(fs, files_stack[k].full_path)
    /\ fs[files_stack[k].full_path].data = fs0[files_stack[k].node].data

\* files_stack[k] was skipped: not returned, the destination as it was
WasSkipped(k) ==
    /\ files_stack[k].full_path \notin Range(copied_files)
    /\ Exists(fs, files_stack[k].full_path)
    /\ fs[files_stack[k].full_path] = fs0[files_stack[k].full_path]

\* C11: under mode Update a file is written iff its destination does not
\* exist or the source was modified strictly after the destination; with
\* equal modification times, or a newer destination, the file is skipped and
\* the destination content is left as it was.
C11_UpdateStrictlyNewer ==
    (option = "Update" /\ pc = "copied" /\ copied_result.ok /\ ~only_folders
        /\ alters = 0) =>
        \A k \in 1..Len(files_stack) :
            /\ (WasAbsent(k) \/ SourceIsNewer(k))
                  => (WasWritten(k) \/ files_stack[k].full_path \in failed)
            /\ ~(WasAbsent(k) \/ SourceIsNewer(k))
                  => (WasSkipped(k) \/ files_stack[k].full_path \in failed)
            /\ files_stack[k].full_path \in failed
                  => files_stack[k].full_path \notin Range(copied_files)

\* an Update copy has returned after it skipped a file as old as its
\* destination and wrote another file
C11_Witness ==
    /\ option = "Update"
    /\ pc = "copied"
    /\ copied_result.ok
    /\ alters = 0
    /\ \E k \in 1..Len(files_stack) :
          /\ ~WasAbsent(k)
          /\ fs0[files_stack[k].node].mtime = fs0[files_stack[k].full_path].mtime
          /\ WasSkipped(k)
    /\ \E k \in 1..Len(files_stack) : WasAbsent(k) /\ WasWritten(k)

\* an Update copy has returned after it overwrote an older destination file
C11_WitnessNewer ==
    /\ option = "Update"
    /\ pc = "copied"
    /\ copied_result.ok
    /\ \E k \in 1..Len(files_stack) : SourceIsNewer(k) /\ WasWritten(k)

\* C12: under mode Complete a file is written iff nothing exists at its
\* destination path; a destination file that already exists is never
\* modified by the copy.
C12_CompleteOnlyMissing ==
    (option = "Complete" /\ pc = "copied" /\ copied_result.ok /\ ~only_folders
        /\ alters = 0) =>
        \A k \in 1..Len(files_stack) :
            /\ WasAbsent(k) => (WasWritten(k) \/ files_stack[k].full_path \in failed)
            /\ ~WasAbsent(k) => WasSkipped(k)

\* a Complete copy has returned after it skipped an existing destination
\* file and wrote a missing one
C12_Witness ==
    /\ option = "Complete"
    /\ pc = "copied"
    /\ copied_result.ok
    /\ alters = 0
    /\ \E k \in 1..Len(files_stack) : ~WasAbsent(k) /\ WasSkipped(k)
    /\ \E k \in 1..Len(files_stack) : WasAbsent(k) /\ WasWritten(k)

\* -------------------------------------------- claims about the copy phases
\* the files at or below the destination are those of the start, unchanged
DestinationFilesUntouched ==
    \A p \in DOMAIN fs \cup DOMAIN fs0 :
        (IsPrefix(DestRoot, p) /\ (IsFile(fs, p) \/ IsFile(fs0, p)))
            => (Exists(fs, p) /\ Exists(fs0, p) /\ fs[p] = fs0[p])

\* every folder node of the tree that the copy reaches has its directory at
\* the destination
DirectoriesCreated ==
    \A n \in Nodes :
        (tree.val[n].kind = "dir" /\ (into \/ n # source_path))
            => IsDir(fs, DestFullPath(n))

CreatesDirectory ==
    \E p \in DOMAIN fs' \ DOMAIN fs : IsPrefix(DestRoot, p) /\ fs'[p].kind = "dir"

\* no destination file was opened or written yet
NoFileTouched ==
    /\ pc \notin {"files", "copied", "done"}
    /\ copied_files = <<>>
    /\ failed = {}
    /\ skipped = {}
    /\ DestinationFilesUntouched

\* C14: in copy, every destination directory is created before the first
\* destination file is opened or written: when the file phase runs every
\* directory exists, and no directory is created once a file was touched.
C14_DirectoriesBeforeFiles ==
    /\ [](pc = "files" => DirectoriesCreated)
    /\ [][CreatesDirectory => NoFileTouched]_vars

\* the file phase has written a file below a directory the copy created
C14_Witness ==
    /\ pc = "files"
    /\ \E i \in 1..Len(copied_files) :
          /\ Len(copied_files[i]) > 2
          /\ ~Exists(fs0, Parent(copied_files[i]))
    /\ todo # {}

\* ------------------------------------------------------------ remove command
\* do_remove (commands/remove.rs): the content of the source is read with
\* get_dir_content, the files are removed by parallel workers, then the
\* directories are removed one after the other, last listed first.

InitRemove ==
    /\ variant = "do_remove"
    /\ InitMoveVars
    /\ \E s \in SourceTrees :
          /\ fs = s
          /\ source_path = SourceOf(s)
          /\ fs0 = s
    /\ pc = "rm_start"
    /\ fails = 0
    /\ alters = 0
    /\ option = "None"
    /\ into = FALSE
    /\ only_folders = FALSE
    /\ only_files \in BOOLEAN
    /\ poisoned = FALSE
    /\ value = <<>>
    /\ shift = 0
    /\ string = <<>>
    /\ worker = <<>>
    /\ guard = 0
    /\ tree = None
    /\ locked = {}
    /\ cursor = EmptyFs
    /\ stack = <<>>
    /\ files_stack = <<>>
    /\ todo = {}
    /\ copied_files = <<>>
    /\ copied_result = Pending
    /\ verify_result = Pending
    /\ printed = {}
    /\ failed = {}
    /\ skipped = {}
    /\ dir_content = [files |-> <<>>, directories |-> <<>>]

\* what the remove command leaves alone
notRemoveVars == <<alters, paramVars, variant, ignore, fs0, tree, locked, cursor, stack,
                   files_stack, copied_files, copied_result, verify_result, printed,
                   failed, skipped, path_content, list_to_explore, copy_list_of_errors,
                   remove_list_of_errors>>

\* do_remove returns its boolean
DoRemoveReturn(b) ==
    /\ outcome' = IF b THEN "true" ELSE "false"
    /\ pc' = "done"

\* do_remove up to the call of remove_files: get_dir_content, the
\* confirmation, the check of the permissions of every source file (its test
\* file is created and removed within the check)
DoRemoveStart ==
    /\ pc = "rm_start"
    /\ LET c == GetDirContent(fs, source_path)
       IN \/ /\ ~c.some
             /\ DoRemoveReturn(FALSE)
             /\ UNCHANGED <<dir_content, fails, todo, files_ok>>
          \/ \* the user declines, or check_permissions fails for a file
             /\ c.some
             /\ \/ UNCHANGED fails
                \/ /\ c.val.files # <<>>
                   /\ fails < MaxFail
                   /\ fails' = fails + 1
             /\ dir_content' = c.val
             /\ DoRemoveReturn(FALSE)
             /\ UNCHANGED <<todo, files_ok>>
          \/ /\ c.some
             /\ dir_content' = c.val
             /\ todo' = 1..Len(c.val.files)
             /\ files_ok' = TRUE
             /\ pc' = "rm_files"
             /\ UNCHANGED <<fails, outcome>>
    /\ UNCHANGED <<fs, dirs_ok, notRemoveVars>>

\* a remove_files that stops at the first failure
RemoveFilesStepStop(i) ==
    /\ pc = "rm_files"
    /\ i \in todo
    /\ LET p == dir_content.files[i]
       IN \/ /\ IsFile(fs, p)
             /\ fs' = Del(fs, p)
             /\ todo' = todo \ {i}
             /\ UNCHANGED <<fails, files_ok>>
          \/ /\ ~IsFile(fs, p) \/ fails < MaxFail
             /\ fails' = IF IsFile(fs, p) THEN fails + 1 ELSE fails
             /\ files_ok' = FALSE
             /\ todo' = {}
             /\ UNCHANGED fs
    /\ UNCHANGED <<pc, dir_content, dirs_ok, outcome, notRemoveVars>>

\* remove_files, one worker: remove_file(item), a failure sets remove_error
RemoveFilesStep(i) ==
    /\ pc = "rm_files"
    /\ i \in todo
    /\ todo' = todo \ {i}
    /\ LET p == dir_content.files[i]
       IN \/ /\ IsFile(fs, p)
             /\ fs' = Del(fs, p)
             /\ UNCHANGED <<fails, files_ok>>
          \/ /\ ~IsFile(fs, p) \/ fails < MaxFail
             /\ fails' = IF IsFile(fs, p) THEN fails + 1 ELSE fails
             /\ files_ok' = FALSE
             /\ UNCHANGED fs
    /\ UNCHANGED <<pc, dir_content, dirs_ok, outcome, notRemoveVars>>

\* do_remove calling remove_directories while workers of remove_files are
\* still running
DoRemoveAfterFilesEarly ==
    /\ pc = "rm_files"
    /\ IF ~files_ok THEN DoRemoveReturn(FALSE) /\ UNCHANGED <<todo, dirs_ok>>
       ELSE IF only_files THEN DoRemoveReturn(TRUE) /\ UNCHANGED <<todo, dirs_ok>>
       ELSE /\ todo' = 1..Len(dir_content.directories)
            /\ dirs_ok' = TRUE
            /\ pc' = "rm_dirs"
            /\ UNCHANGED outcome
    /\ UNCHANGED <<fs, fails, dir_content, files_ok, notRemoveVars>>

\* a do_remove that removes the directories whatever only_files says
DoRemoveAfterFilesAll ==
    /\ pc = "rm_files"
    /\ todo = {}
    /\ IF ~files_ok THEN DoRemoveReturn(FALSE) /\ UNCHANGED <<todo, dirs_ok>>
       ELSE /\ todo' = 1..Len(dir_content.directories)
            /\ dirs_ok' = TRUE
            /\ pc' = "rm_dirs"
            /\ UNCHANGED outcome
    /\ UNCHANGED <<fs, fails, dir_content, files_ok, notRemoveVars>>

\* remove_files has returned: do_remove stops on its error and on only_files,
\* else it calls remove_directories
DoRemoveAfterFiles ==
    /\ pc = "rm_files"
    /\ todo = {}
    /\ IF ~files_ok THEN DoRemoveReturn(FALSE) /\ UNCHANGED <<todo, dirs_ok>>
       ELSE IF only_files THEN DoRemoveReturn(TRUE) /\ UNCHANGED <<todo, dirs_ok>>
       ELSE /\ todo' = 1..Len(dir_content.directories)
            /\ dirs_ok' = TRUE
            /\ pc' = "rm_dirs"
            /\ UNCHANGED outcome
    /\ UNCHANGED <<fs, fails, dir_content, files_ok, notRemoveVars>>

\* the least element of a nonempty set of numbers: an iteration without rev()
MinOf(S) == CHOOSE x \in S : \A y \in S : x <= y

\* the greatest element of a nonempty set of numbers
MaxOf(S) == CHOOSE x \in S : \A y \in S : y <= x

\* remove_directories, one iteration of .iter().rev(): remove_dir(item),
\* which fails on a directory that is not empty
RemoveDirectoriesStep ==
    /\ pc = "rm_dirs"
    /\ todo # {}
    /\ LET i == MaxOf(todo)
           p == dir_content.directories[i]
           can == IsDir(fs, p) /\ ReadDir(fs, p) = {}
       IN /\ todo' = todo \ {i}
          /\ \/ /\ can
                /\ fs' = Del(fs, p)
                /\ UNCHANGED <<fails, dirs_ok>>
             \/ /\ ~can \/ fails < MaxFail
                /\ fails' = IF can THEN fails + 1 ELSE fails
                /\ dirs_ok' = FALSE
                /\ UNCHANGED fs
    /\ UNCHANGED <<pc, dir_content, files_ok, outcome, notRemoveVars>>

\* remove_directories has returned
DoRemoveAfterDirectories ==
    /\ pc = "rm_dirs"
    /\ todo = {}
    /\ DoRemoveReturn(dirs_ok)
    /\ UNCHANGED <<fs, fails, todo, dir_content, files_ok, dirs_ok, notRemoveVars>>

NextRemove ==
    \/ DoRemoveStart
    \/ \E i \in todo : RemoveFilesStep(i)
    \/ DoRemoveAfterFiles
    \/ RemoveDirectoriesStep
    \/ DoRemoveAfterDirectories

SpecRemove == InitRemove /\ [][NextRemove]_vars

\* the remove command and the two move commands together
SpecRemoving == (InitMove \/ InitRemove) /\ [][NextMove \/ NextRemove]_vars

\* ------------------------------------------ claims about the removing phase
\* the directory phase of remove and of the second phase of move
DirectoryPhase == pc \in {"rm_dirs", "removing_dirs"}

\* the files the command removes
ListedFiles ==
    IF variant = "do_remove" THEN Range(dir_content.files)
    ELSE Range(path_content.list_of_files)

\* the removal of a listed file has completed: the file is gone, or its
\* failure is recorded
FileRemovalCompleted(p) == ~Exists(fs, p) \/ ~files_ok

\* a step that removes a directory of the source
RemovesSourceDirectory ==
    \E p \in DOMAIN fs : IsDir(fs, p) /\ IsPrefix(source_path, p) /\ p \notin DOMAIN fs'

\* C15: in remove and in the second phase of move, the removal of every
\* listed file has completed when the directory phase runs, and a directory
\* of the source is removed only in the directory phase
C15_FilesBeforeDirectories ==
    /\ [](DirectoryPhase => \A p \in ListedFiles : FileRemovalCompleted(p))
    /\ [][RemovesSourceDirectory =>
            (DirectoryPhase /\ \A p \in ListedFiles : FileRemovalCompleted(p))]_vars

\* a directory of the source has been removed after the files it held
C15_Witness ==
    /\ DirectoryPhase
    /\ ListedFiles # {}
    /\ \E p \in DOMAIN fs0 :
          /\ IsDir(fs0, p) /\ IsPrefix(source_path, p) /\ ~Exists(fs, p)
          /\ \E q \in ListedFiles : Parent(q) = p

LockRespectingWrite ==
    /\ tree.some
    /\ pc \in {"tree", "prepare", "files", "copied"}
    /\ alters < MaxAlter
    /\ alters' = alters + 1
    /\ \E n \in FileNodes \ locked : fs' = Put(fs, n, Written(<<0>>))
    /\ UNCHANGED <<pc, fails, paramVars, tree, locked, cursor, stack, files_stack,
                   todo, copied_files, copied_result, verify_result, printed, failed,
                   skipped, legacyVars>>

\* the copy command of the tree engine next to a lock respecting writer
NextLocks == Next \/ LockRespectingWrite

SpecLocks == Init /\ [][NextLocks]_vars

\* a step changes the source file of node n
SourceFileModified(n) == fs'[n] # fs[n]

\* node n is between the build of the tree and its copy read
BeforeCopyRead(n) ==
    \/ pc \in {"tree", "prepare"}
    \/ pc = "files" /\ \E i \in todo : files_stack[i].node = n

\* node n is between its copy read and its verification read
BeforeVerifyRead(n) ==
    \E i \in 1..Len(files_stack) :
        /\ files_stack[i].node = n
        /\ files_stack[i].full_path \in Range(copied_files)
        /\ \/ pc = "files"
           \/ pc = "copied" /\ copied_result.ok

\* C17: no source file of the tree is modified by a lock respecting process
\* between the build of the tree and the copy read of the file, nor between
\* its copy read and its verification read.
C17_NoWriteBetweenIndexAndRead ==
    [][tree.some =>
          \A n \in FileNodes :
              (BeforeCopyRead(n) \/ BeforeVerifyRead(n)) => ~SourceFileModified(n)]_vars

\* ------------------------------------------------- FileNode::lock / unlock
\* a lock that refuses a node that is already locked
FileNodeLockStrict(is_locked, os_ok) ==
    IF ~is_locked
    THEN IF os_ok THEN [is_locked |-> TRUE, ok |-> TRUE]
         ELSE [is_locked |-> FALSE, ok |-> FALSE]
    ELSE [is_locked |-> TRUE, ok |-> FALSE]

\* FileNode::lock: is_locked after the call and whether it returned Ok;
\* os_ok: handle.lock_exclusive() succeeds
FileNodeLock(is_locked, os_ok) ==
    IF ~is_locked
    THEN IF os_ok THEN [is_locked |-> TRUE, ok |-> TRUE]
         ELSE [is_locked |-> FALSE, ok |-> FALSE]
    ELSE [is_locked |-> is_locked, ok |-> TRUE]

\* FileNode::unlock; os_ok: handle.unlock() succeeds
FileNodeUnlock(is_locked, os_ok) ==
    IF is_locked
    THEN IF os_ok THEN [is_locked |-> FALSE, ok |-> TRUE]
         ELSE [is_locked |-> TRUE, ok |-> FALSE]
    ELSE [is_locked |-> is_locked, ok |-> TRUE]

\* Sequences of lock and unlock calls on the file nodes of a tree. In this
\* specification `outcome` records the last call: its operation, its node,
\* whether the node was locked before, and whether the call returned Ok.
InitFileNode ==
    /\ variant = "file_node"
    /\ ignore = "None"
    /\ path_content = PathContentNew
    /\ list_to_explore = <<>>
    /\ copy_list_of_errors = <<>>
    /\ remove_list_of_errors = <<>>
    /\ dirs_ok = FALSE
    /\ files_ok = FALSE
    /\ outcome = [op |-> "none", node |-> <<>>, was_locked |-> FALSE, ok |-> TRUE]
    /\ \E s \in SourceTrees :
          /\ fs = s
          /\ source_path = SourceOf(s)
          /\ fs0 = s
          /\ tree = NodeNew(s, {}, SourceOf(s))
    /\ tree.some
    /\ cursor = [n \in {m \in DOMAIN tree.val : tree.val[m].kind = "file"} |-> 0]
    /\ pc = "node"
    /\ fails = 0
    /\ alters = 0
    /\ option = "None"
    /\ into = FALSE
    /\ only_folders = FALSE
    /\ only_files = FALSE
    /\ poisoned = FALSE
    /\ value = <<>>
    /\ shift = 0
    /\ string = <<>>
    /\ worker = <<>>
    /\ guard = 0
    /\ locked = {}
    /\ stack = <<>>
    /\ files_stack = <<>>
    /\ todo = {}
    /\ copied_files = <<>>
    /\ copied_result = Pending
    /\ verify_result = Pending
    /\ printed = {}
    /\ failed = {}
    /\ skipped = {}
    /\ dir_content = [files |-> <<>>, directories |-> <<>>]

\* one call of lock (op = "lock") or unlock (op = "unlock") on file node n
FileNodeCall(op, n) ==
    /\ pc = "node"
    /\ n \in FileNodes
    /\ \E os_ok \in {TRUE} \cup {b \in {FALSE} : fails < MaxFail /\ ((op = "lock") # (n \in locked))} :
          LET r == IF op = "lock" THEN FileNodeLock(n \in locked, os_ok)
                   ELSE FileNodeUnlock(n \in locked, os_ok)
          IN /\ locked' = IF r.is_locked THEN locked \cup {n} ELSE locked \ {n}
             /\ outcome' = [op |-> op, node |-> n, was_locked |-> n \in locked, ok |-> r.ok]
             /\ fails' = IF os_ok THEN fails ELSE fails + 1
    /\ UNCHANGED <<fs, pc, alters, paramVars, tree, cursor, stack, files_stack, todo,
                   copied_files, copied_result, verify_result, printed, failed, skipped,
                   dir_content, variant, ignore, path_content, list_to_explore,
                   copy_list_of_errors, remove_list_of_errors, dirs_ok, files_ok, fs0>>

FileNodeLockCall == \E n \in FileNodes : FileNodeCall("lock", n)

FileNodeUnlockCall == \E n \in FileNodes : FileNodeCall("unlock", n)

NextFileNode == FileNodeLockCall \/ FileNodeUnlockCall

SpecFileNode == InitFileNode /\ [][NextFileNode]_vars

\* C18: locking a locked file node and unlocking an unlocked one change
\* nothing and return Ok; the lock state of a node goes from unlocked to
\* locked only by a lock of that node and from locked to unlocked only by an
\* unlock of that node.
C18_LockUnlockIdempotent ==
    /\ [](/\ (outcome.op = "lock" /\ outcome.was_locked) =>
                (outcome.ok /\ outcome.node \in locked)
          /\ (outcome.op = "unlock" /\ ~outcome.was_locked) =>
                (outcome.ok /\ outcome.node \notin locked))
    /\ [][/\ outcome'.was_locked = (outcome'.node \in locked)
          /\ \A n \in FileNodes :
                /\ (n \notin locked /\ n \in locked') =>
                      outcome' = [op |-> "lock", node |-> n, was_locked |-> FALSE, ok |-> TRUE]
                /\ (n \in locked /\ n \notin locked') =>
                      outcome' = [op |-> "unlock", node |-> n, was_locked |-> TRUE, ok |-> TRUE]
                /\ n # outcome'.node => (n \in locked' <=> n \in locked)]_vars

\* a locked file node has been locked a second time
C18_Witness ==
    /\ pc = "node"
    /\ outcome.op = "lock"
    /\ outcome.was_locked
    /\ outcome.ok
    /\ Cardinality(locked) >= 2

\* ------------------------------------------- claims about the tree build
\* C19: the build of the tree is all-or-nothing: a returned tree holds a
\* node for every entry of the source subtree.
C19_BuildAllOrNothing ==
    (variant = "none" /\ tree.some) =>
        \A p \in DOMAIN fs0 : IsPrefix(source_path, p) => p \in Nodes

\* ------------------------------------------------------------- the indexer
\* PathContent::index_entries alone, on a new PathContent, for every
\* IgnoreFlag and both values of `into`.
InitIndex ==
    /\ variant = "index_entries"
    /\ ignore \in {"Files", "Directories", "None"}
    /\ into \in BOOLEAN
    /\ path_content = PathContentNew
    /\ list_to_explore = <<>>
    /\ copy_list_of_errors = <<>>
    /\ remove_list_of_errors = <<>>
    /\ dirs_ok = FALSE
    /\ files_ok = FALSE
    /\ outcome = "running"
    /\ \E s \in SourceTrees :
          /\ fs = s
          /\ source_path = SourceOf(s)
          /\ fs0 = s
    /\ pc = "start"
    /\ fails = 0
    /\ alters = 0
    /\ option = "None"
    /\ only_folders = FALSE
    /\ InitRun

NextIndex ==
    \/ IndexEntriesStart
    \/ IndexEntriesStep
    \/ IndexEntriesDone

SpecIndex == InitIndex /\ [][NextIndex]_vars

\* index_entries has returned, with Ok or with an error
IndexEntriesReturned == pc \in {"dest", "done"}

\* C20: in the state index_entries leaves, with Ok or with an error and for
\* every ignore flag, entries is the number of recorded files plus the
\* number of recorded directories.
C20_EntriesIsFilesPlusDirs ==
    IndexEntriesReturned =>
        path_content.entries =
            Len(path_content.list_of_files) + Len(path_content.list_of_dirs)

\* index_entries has failed under an ignore flag after it recorded entries
C20_Witness ==
    /\ pc = "done"
    /\ outcome = "index_error"
    /\ ignore = "Directories"
    /\ path_content.entries >= 2

\* ------------------------------------------------- index_entries, called again
\* an index that never refuses a second call
AlreadyIndexedNever(pcnt) == FALSE

\* index_entries, its first statement: `if self.indexed`
AlreadyIndexed(pcnt) == pcnt.indexed

\* a further call of index_entries on the same PathContent, after an earlier
\* call has returned: the already-indexed error, or the body of the function
IndexEntriesAgain ==
    /\ pc \in {"dest", "done"}
    /\ IF AlreadyIndexed(path_content)
       THEN /\ outcome' = "already_indexed"
            /\ pc' = "done"
            /\ UNCHANGED <<path_content, list_to_explore>>
       ELSE /\ path_content' = [path_content EXCEPT !.indexed = TRUE]
            /\ list_to_explore' \in
                  (IF into \/ ~IsDir(fs, source_path) THEN {<<source_path>>}
                   ELSE Orders(ReadDir(fs, source_path)))
            /\ pc' = "index"
            /\ UNCHANGED outcome
    /\ UNCHANGED <<fs, fails, alters, todo, copied_files, copy_list_of_errors,
                   remove_list_of_errors, dirs_ok, files_ok, notMoveVars>>

NextReindex == NextIndex \/ IndexEntriesAgain

SpecReindex == InitIndex /\ [][NextReindex]_vars

\* C21: every call of index_entries after the first, whether the first
\* returned Ok or an error, returns the already-indexed error and leaves
\* entries, size, list_of_dirs and list_of_files unchanged.
C21_IndexOnce ==
    [][IndexEntriesReturned =>
          /\ path_content' = path_content
          /\ pc' = "done"
          /\ outcome' = "already_indexed"]_vars

\* a second call after a first call that failed with entries recorded
C21_Witness ==
    /\ outcome = "already_indexed"
    /\ fails >= 1
    /\ path_content.entries >= 1

\* ---------------------------------------------- claims about the indexer
\* index_entries has returned Ok
IndexEntriesOk == pc = "dest" \/ outcome = "nothing_to_move"

\* the path is in one of the two lists of the index
Recorded(p) ==
    p \in Range(path_content.list_of_dirs) \cup Range(path_content.list_of_files)

\* the kind of the path is not ignored
NotIgnored(p) ==
    \/ IsDir(fs, p) /\ ignore # "Directories"
    \/ IsFile(fs, p) /\ ignore # "Files"

\* C22: with into false and a directory root the root is not recorded and
\* its direct children are; with into true, or a file root, the root itself
\* is indexed; a file root yields exactly 1 file, 0 directories, 1 entry.
C22_RootItself ==
    (variant = "index_entries" /\ IndexEntriesOk) =>
        /\ (~into /\ IsDir(fs, source_path)) =>
              /\ ~Recorded(source_path)
              /\ fails = 0 =>
                    \A c \in ReadDir(fs, source_path) : NotIgnored(c) => Recorded(c)
        /\ (into \/ IsFile(fs, source_path)) =>
              (NotIgnored(source_path) => Recorded(source_path))
        /\ (IsFile(fs, source_path) /\ ignore # "Files") =>
              /\ path_content.list_of_files = <<source_path>>
              /\ path_content.list_of_dirs = <<>>
              /\ path_content.entries = 1

\* a directory root with children has been indexed without the root itself
C22_Witness ==
    /\ variant = "index_entries"
    /\ pc = "dest"
    /\ ~into
    /\ ignore = "None"
    /\ IsDir(fs, source_path)
    /\ path_content.entries >= 3
    /\ ~Recorded(source_path)

\* the files below the root, the root itself included when it is a file
SourceFiles == {p \in DOMAIN fs : IsPrefix(source_path, p) /\ IsFile(fs, p)}

\* the directories the indexer reaches: those below the root, and the root
\* itself with into
SourceDirs ==
    {p \in DOMAIN fs : IsPrefix(source_path, p) /\ IsDir(fs, p)
                       /\ (into \/ p # source_path)}

\* the sum of the sizes of the files of a list
RECURSIVE SumSizes(_)
SumSizes(files) ==
    IF files = <<>> THEN 0
    ELSE Len(fs[files[1]].data) + SumSizes(Tail(files))

\* no element of the sequence occurs twice
NoDuplicate(seq) == \A i, j \in 1..Len(seq) : seq[i] = seq[j] => i = j

\* C23: with ignore = Directories every file below the root, at any depth,
\* is recorded, sized and counted, no directory is recorded and no directory
\* increments entries.
C23_IgnoreDirectories ==
    (variant = "index_entries" /\ ignore = "Directories") =>
        /\ path_content.list_of_dirs = <<>>
        /\ path_content.entries = Len(path_content.list_of_files)
        /\ (IndexEntriesOk /\ fails = 0) =>
              /\ Range(path_content.list_of_files) = SourceFiles
              /\ NoDuplicate(path_content.list_of_files)
              /\ path_content.size = SumSizes(path_content.list_of_files)

\* a file two levels below the root has been recorded while directories
\* are ignored
C23_Witness ==
    /\ variant = "index_entries"
    /\ ignore = "Directories"
    /\ pc = "dest"
    /\ fails = 0
    /\ \E p \in Range(path_content.list_of_files) : Len(p) = Len(source_path) + 2
    /\ \E p \in DOMAIN fs : IsDir(fs, p) /\ p # source_path

\* C24: with ignore = Files no file is recorded, sized or counted: the list
\* of files is empty, size is 0 and entries is the number of recorded
\* directories; after an Ok without failure every directory is recorded once.
C24_IgnoreFiles ==
    (variant = "index_entries" /\ ignore = "Files") =>
        /\ path_content.list_of_files = <<>>
        /\ path_content.size = 0
        /\ path_content.entries = Len(path_content.list_of_dirs)
        /\ (IndexEntriesOk /\ fails = 0) =>
              /\ Range(path_content.list_of_dirs) = SourceDirs
              /\ NoDuplicate(path_content.list_of_dirs)

\* a tree holding files has been indexed with its files ignored
C24_Witness ==
    /\ variant = "index_entries"
    /\ ignore = "Files"
    /\ pc = "dest"
    /\ fails = 0
    /\ Cardinality(SourceFiles) >= 2
    /\ path_content.entries >= 2

\* C25: index_entries fails whenever a directory listing, the read of a
\* directory entry or the read of a file's metadata fails under the root: it
\* never returns Ok with an entry left out of the index.
C25_FailsOnUnreadable ==
    (variant = "index_entries" /\ IndexEntriesOk) =>
        /\ fails = 0
        /\ \A p \in SourceFiles \cup SourceDirs : NotIgnored(p) => Recorded(p)

\* C26: once index_entries has set the indexed flag and returned, the
\* entry count, the total size and the two lists of the index are never
\* modified again by the operation that consumes the index.
C26_IndexFrozen ==
    [][(path_content.indexed /\ pc \notin {"start", "index"}) =>
          /\ path_content'.entries = path_content.entries
          /\ path_content'.size = path_content.size
          /\ path_content'.list_of_dirs = path_content.list_of_dirs
          /\ path_content'.list_of_files = path_content.list_of_files]_vars

\* ------------------------------------------- the shared list of errors
\* The workers of a parallel loop of the move command record their errors
\* with add_error in a list behind a Mutex. A worker that panics while it
\* holds the guard poisons the Mutex; rayon lets the other workers finish
\* and resumes the panic in the caller of the loop.
MaxWorkers == 3

InitGuard ==
    /\ variant = "execute"
    /\ InitMoveVars
    /\ fs = EmptyFs
    /\ fs0 = EmptyFs
    /\ source_path = DirRoot
    /\ pc = "workers"
    /\ fails = 0
    /\ alters = 0
    /\ option = "None"
    /\ into = FALSE
    /\ only_folders = FALSE
    /\ only_files = FALSE
    /\ poisoned = FALSE
    /\ value = <<>>
    /\ shift = 0
    /\ string = <<>>
    /\ worker = <<>>
    /\ guard = 0
    /\ tree = None
    /\ locked = {}
    /\ cursor = EmptyFs
    /\ stack = <<>>
    /\ files_stack = <<>>
    /\ todo \in {1..n : n \in 1..MaxWorkers}
    /\ copied_files = <<>>
    /\ copied_result = Pending
    /\ verify_result = Pending
    /\ printed = {}
    /\ failed = {}
    /\ skipped = {}
    /\ dir_content = [files |-> <<>>, directories |-> <<>>]

\* what the workers of the loop leave alone
guardFrame == <<fs, alters, source_path, option, into, only_folders, only_files,
                variant, ignore, fs0, tree, locked, cursor, stack, files_stack,
                copied_files, copied_result, verify_result, printed, skipped,
                dir_content, path_content, list_to_explore, remove_list_of_errors,
                dirs_ok, files_ok, value, shift, string, worker, guard>>

\* worker i ends without an error to record
WorkerOk(i) ==
    /\ pc = "workers"
    /\ i \in todo
    /\ todo' = todo \ {i}
    /\ UNCHANGED <<pc, fails, failed, copy_list_of_errors, poisoned, outcome, guardFrame>>

\* the operation of worker i fails and the worker calls add_error
WorkerAddError(i) ==
    /\ pc = "workers"
    /\ i \in todo
    /\ todo' = todo \ {i}
    /\ failed' = failed \cup {i}
    /\ copy_list_of_errors' =
          AddError(copy_list_of_errors, poisoned, OperationError("copy_file", i))
    /\ UNCHANGED <<pc, fails, poisoned, outcome, guardFrame>>

\* worker i panics while it holds the guard of the list
WorkerPanics(i) ==
    /\ pc = "workers"
    /\ i \in todo
    /\ fails < MaxFail
    /\ fails' = fails + 1
    /\ todo' = todo \ {i}
    /\ poisoned' = TRUE
    /\ UNCHANGED <<pc, failed, copy_list_of_errors, outcome, guardFrame>>

\* the parallel loop is over: the panic of a worker is resumed in the caller,
\* else execute goes on to read the list
LoopJoin ==
    /\ pc = "workers"
    /\ todo = {}
    /\ IF poisoned THEN MoveReturn("panic")
       ELSE pc' = "gate" /\ UNCHANGED outcome
    /\ UNCHANGED <<fails, todo, failed, copy_list_of_errors, poisoned, guardFrame>>

NextGuard ==
    \/ \E i \in todo : WorkerOk(i)
    \/ \E i \in todo : WorkerAddError(i)
    \/ \E i \in todo : WorkerPanics(i)
    \/ LoopJoin
    \/ MoveGate

SpecGuard == InitGuard /\ [][NextGuard]_vars

\* C27: when the guard of the shared list of errors is poisoned, the
\* operation aborts: move does not enter the remove phase, and no error a
\* worker tried to record is missing from the list.
C27_PoisonIsFatal ==
    poisoned =>
        /\ pc \notin {"gate", "remove_files"}
        /\ \A i \in failed :
              OperationError("copy_file", i) \in Range(copy_list_of_errors)

\* ------------------------------------------ claims about the remove command
\* the listed files that are still there
RemainingFiles == {p \in Range(dir_content.files) : Exists(fs, p)}

\* a step in which remove_files returns to do_remove
RemoveFilesReturns == pc = "rm_files" /\ pc' # "rm_files"

\* C28: remove_files attempts the removal of every listed file even when
\* some removals fail, and returns Ok iff no removal failed.
C28_RemoveFilesAttemptsAll ==
    [][RemoveFilesReturns =>
          /\ todo = {}
          /\ Cardinality(RemainingFiles) = fails
          /\ files_ok <=> RemainingFiles = {}
          /\ ~files_ok <=> (pc' = "done" /\ outcome' = "false")]_vars

\* remove_files has returned an error after it removed the other files
C28_Witness ==
    /\ variant = "do_remove"
    /\ pc = "done"
    /\ outcome = "false"
    /\ Cardinality(RemainingFiles) = 1
    /\ Len(dir_content.files) >= 3

\* directory q is nested beneath directory p
NestedBeneath(q, p) == q # p /\ IsPrefix(p, q)

\* C29: whenever remove_directories attempts the removal of a directory,
\* the removal of every listed directory nested beneath it has already been
\* attempted.
C29_ChildBeforeParent ==
    [][(pc = "rm_dirs" /\ todo' # todo) =>
          \A i \in todo \ todo' :
              \A j \in 1..Len(dir_content.directories) :
                  NestedBeneath(dir_content.directories[j], dir_content.directories[i])
                      => j \notin todo]_vars

\* a directory two levels below the root has been removed while the removal
\* of its parent is still to come
C29_Witness ==
    /\ pc = "rm_dirs"
    /\ \E i \in todo : \E j \in (1..Len(dir_content.directories)) \ todo :
          /\ NestedBeneath(dir_content.directories[j], dir_content.directories[i])
          /\ Len(dir_content.directories[j]) = Len(source_path) + 2
          /\ ~Exists(fs, dir_content.directories[j])

\* ------------------------------------------------- copy, run twice in a row
\* The copy command of the tree engine with mode Replace, run a second time
\* on the same source and destination. In this specification `variant`
\* tells the runs apart: "none" during the first, "rerun" during the second.
InitTwice ==
    /\ Init
    /\ option = "Replace"
    /\ ~only_folders

\* a second run that reuses the tree of the first run, with its file handles
\* where the first run left them
RerunSameTree ==
    /\ pc = "done"
    /\ variant = "none"
    /\ tree.some
    /\ variant' = "rerun"
    /\ pc' = "tree"
    /\ stack' = <<>>
    /\ files_stack' = <<>>
    /\ todo' = {}
    /\ copied_files' = <<>>
    /\ copied_result' = Pending
    /\ verify_result' = Pending
    /\ printed' = {}
    /\ failed' = {}
    /\ skipped' = {}
    /\ fs0' = fs
    /\ UNCHANGED <<fs, fails, alters, paramVars, tree, locked, cursor, dir_content, ignore,
                   path_content, list_to_explore, copy_list_of_errors,
                   remove_list_of_errors, dirs_ok, files_ok, outcome>>

\* the command is run again: execute_copy starts from Tree::new, with new
\* file handles, and the locks of the first process are gone with it
Rerun ==
    /\ pc = "done"
    /\ variant = "none"
    /\ tree.some
    /\ variant' = "rerun"
    /\ pc' = "start"
    /\ tree' = None
    /\ locked' = {}
    /\ cursor' = EmptyFs
    /\ stack' = <<>>
    /\ files_stack' = <<>>
    /\ todo' = {}
    /\ copied_files' = <<>>
    /\ copied_result' = Pending
    /\ verify_result' = Pending
    /\ printed' = {}
    /\ failed' = {}
    /\ skipped' = {}
    /\ fs0' = fs
    /\ UNCHANGED <<fs, fails, alters, paramVars, dir_content, ignore, path_content,
                   list_to_explore, copy_list_of_errors, remove_list_of_errors,
                   dirs_ok, files_ok, outcome>>

NextTwice == Next \/ Rerun

SpecTwice == InitTwice /\ [][NextTwice]_vars

\* C30: after each of two runs of copy with mode Replace that return Ok,
\* every destination file the run could open holds the bytes of its source
\* file, and the second run leaves the destination with the contents the
\* first run left.
C30_ReplaceTwice ==
    (pc \in {"copied", "done"} /\ copied_result.ok /\ fails = 0 /\ alters = 0) =>
        /\ \A k \in 1..Len(files_stack) :
              files_stack[k].full_path \notin failed =>
                 /\ IsFile(fs, files_stack[k].full_path)
                 /\ fs[files_stack[k].full_path].data = fs[files_stack[k].node].data
        /\ variant = "rerun" =>
              \A p \in DOMAIN fs \cup DOMAIN fs0 :
                  IsPrefix(DestRoot, p) =>
                     /\ p \in DOMAIN fs \cap DOMAIN fs0
                     /\ fs[p].kind = fs0[p].kind
                     /\ fs[p].data = fs0[p].data

\* the second run has returned Ok after it wrote two files again
C30_Witness ==
    /\ variant = "rerun"
    /\ pc = "done"
    /\ copied_result.ok
    /\ fails = 0
    /\ alters = 0
    /\ Len(copied_result.val) >= 2

\* C31: remove with only_files removes no directory, and when it returns
\* true every file that was under the source path is gone.
C31_OnlyFiles ==
    (variant = "do_remove" /\ only_files) =>
        /\ \A p \in DOMAIN fs0 : IsDir(fs0, p) => IsDir(fs, p)
        /\ (pc = "done" /\ outcome = "true") =>
              \A p \in DOMAIN fs0 : IsFile(fs0, p) => ~Exists(fs, p)

\* remove with only_files has returned true on a tree with nested
\* directories and files
C31_Witness ==
    /\ variant = "do_remove"
    /\ only_files
    /\ pc = "done"
    /\ outcome = "true"
    /\ Cardinality({p \in DOMAIN fs0 : IsFile(fs0, p)}) >= 2
    /\ Cardinality({p \in DOMAIN fs : IsDir(fs, p)}) >= 3

\* --------------------------------------- claims about the root of the copy
\* the path of p relative to the source root
RelativeToSource(p) == StripPrefix(p, source_path).val

\* C32: a copy of a directory source named N with copy_target creates every
\* source entry under destination/N at its path relative to the source;
\* without copy_target the children of the source are created directly under
\* the destination and the name N does not appear there.
C32_CopyRootItself ==
    (pc \in {"copied", "done"} /\ copied_result.ok /\ IsDir(fs0, source_path)
        /\ ~only_folders /\ fails = 0 /\ alters = 0 /\ failed = {}) =>
        LET N == Last(source_path)
            base == IF into THEN Join(DestRoot, N) ELSE DestRoot
        IN /\ \A p \in DOMAIN fs0 :
                 (IsPrefix(source_path, p) /\ (into \/ p # source_path)) =>
                     /\ Exists(fs, JoinPath(base, RelativeToSource(p)))
                     /\ fs[JoinPath(base, RelativeToSource(p))].kind = fs0[p].kind
           /\ ~into => ~Exists(fs, Join(DestRoot, N))

\* ---------------------------------------------------------------------------
\* commands/crypto/caesar.rs: the Caesar cipher.  A string is a sequence of
\* character codes; the arithmetic is done on u8 as in the code.
\* ---------------------------------------------------------------------------

\* the longest value drawn, and the largest magnitude of the shift drawn
MaxValueLen == 2
MaxShift == 27

\* the characters drawn: A Z a m z and the non-letters around the two ranges
\* of letters ('@' '[' '`' '{'), a space, a comma and a digit
CaesarAlphabet == {65, 90, 97, 109, 122, 64, 91, 96, 123, 32, 44, 48}

\* NonEmptyStringValueParser: the value is never empty
CaesarValues ==
    UNION {[1..n -> CaesarAlphabet] : n \in 1..MaxValueLen}

\* RangedI64ValueParser: any integer, negative ones included
CaesarShifts == (0 - MaxShift)..MaxShift

\* a value of type u8
U8(x) == x % 256

\* the remainder of the % operator of Rust, which takes the sign of a
RemTruncated(a, n) == IF a >= 0 THEN a % n ELSE 0 - ((0 - a) % n)

\* i64::rem_euclid: the remainder in 0..n-1
RemEuclid(a, n) == a % n

IsAsciiUppercase(c) == c \in 65..90
IsAsciiLowercase(c) == c \in 97..122
IsAsciiAlphabetic(c) == IsAsciiUppercase(c) \/ IsAsciiLowercase(c)

\* deunicode: an ASCII character is passed through
Deunicode(v) == [i \in 1..Len(v) |-> IF v[i] < 128 THEN v[i] ELSE 63]

\* let shift = self.shift.rem_euclid(26) as u8
ShiftOf(s) == U8(RemEuclid(s, 26))

\* let base = if c.is_ascii_lowercase() { b'a' } else { b'A' }
BaseOf(c) == IF IsAsciiLowercase(c) THEN 97 ELSE 65

\* the loop body of encrypt for one character
EncryptChar(c, s) ==
    IF IsAsciiAlphabetic(c)
    THEN LET offset == U8(c - BaseOf(c))
             shifted == U8(offset + ShiftOf(s)) % 26
         IN U8(shifted + BaseOf(c))
    ELSE c

\* the loop body of decrypt for one character
DecryptChar(c, s) ==
    IF IsAsciiAlphabetic(c)
    THEN LET offset == U8(c - BaseOf(c))
             shifted == U8(U8(offset + 26) - ShiftOf(s)) % 26
         IN U8(shifted + BaseOf(c))
    ELSE c

\* Command::encrypt
Encrypt(v, s) == [i \in 1..Len(v) |-> EncryptChar(Deunicode(v)[i], s)]

\* Command::decrypt
Decrypt(v, s) == [i \in 1..Len(v) |-> DecryptChar(Deunicode(v)[i], s)]

\* the values the u8 operations of encrypt compute for c before any wrapping
EncryptSums(c, s) ==
    IF IsAsciiAlphabetic(c)
    THEN LET offset == U8(c - BaseOf(c))
             shifted == U8(offset + ShiftOf(s)) % 26
         IN {c - BaseOf(c), offset + ShiftOf(s), shifted + BaseOf(c)}
    ELSE {}

\* the values the u8 operations of decrypt compute for c before any wrapping
DecryptSums(c, s) ==
    IF IsAsciiAlphabetic(c)
    THEN LET offset == U8(c - BaseOf(c))
             shifted == U8(U8(offset + 26) - ShiftOf(s)) % 26
         IN {c - BaseOf(c), offset + 26, U8(offset + 26) - ShiftOf(s),
             shifted + BaseOf(c)}
    ELSE {}

InitCaesar ==
    /\ variant = "caesar"
    /\ InitMoveVars
    /\ fs = EmptyFs
    /\ fs0 = EmptyFs
    /\ source_path = <<>>
    /\ pc = "caesar"
    /\ fails = 0
    /\ alters = 0
    /\ option = "None"
    /\ into = FALSE
    /\ only_folders = FALSE
    /\ only_files = FALSE
    /\ poisoned = FALSE
    /\ tree = None
    /\ locked = {}
    /\ cursor = EmptyFs
    /\ stack = <<>>
    /\ files_stack = <<>>
    /\ todo = {}
    /\ copied_files = <<>>
    /\ copied_result = Pending
    /\ verify_result = Pending
    /\ printed = {}
    /\ failed = {}
    /\ skipped = {}
    /\ dir_content = [files |-> <<>>, directories |-> <<>>]
    /\ value \in CaesarValues
    /\ shift \in CaesarShifts
    /\ string = <<>>
    /\ worker = <<>>
    /\ guard = 0

\* what the cipher leaves alone
caesarFrame == <<fs, source_path, fails, alters, option, into, only_folders,
                 tree, locked, cursor, stack, files_stack, todo, copied_files,
                 copied_result, verify_result, printed, failed, skipped,
                 dir_content, legacyVars, only_files, poisoned, value, shift,
                 worker, guard>>

\* Command::execute with Cipher::Encrypt on the value
ExecuteEncrypt ==
    /\ variant = "caesar"
    /\ pc = "caesar"
    /\ string' = Encrypt(value, shift)
    /\ pc' = "encrypted"
    /\ UNCHANGED caesarFrame

\* Command::execute with Cipher::Decrypt and the same shift on the string that
\* the encryption printed
ExecuteDecrypt ==
    /\ variant = "caesar"
    /\ pc = "encrypted"
    /\ string' = Decrypt(string, shift)
    /\ pc' = "decrypted"
    /\ UNCHANGED caesarFrame

NextCaesar == ExecuteEncrypt \/ ExecuteDecrypt

SpecCaesar == InitCaesar /\ [][NextCaesar]_vars

\* C33: for every ASCII value and every shift, decrypting the encrypted value
\* with the same shift gives the value back; the encryption keeps the case of
\* every letter and leaves every character that is not a letter unchanged, and
\* no u8 operation of either direction leaves the range 0..255.
C33_RoundTrip ==
    LET e == Encrypt(value, shift) IN
    /\ pc = "encrypted" =>
          /\ string = e
          /\ Len(string) = Len(value)
          /\ \A i \in 1..Len(value) :
                /\ IsAsciiUppercase(value[i]) <=> IsAsciiUppercase(string[i])
                /\ IsAsciiLowercase(value[i]) <=> IsAsciiLowercase(string[i])
                /\ ~IsAsciiAlphabetic(value[i]) => string[i] = value[i]
                /\ EncryptSums(value[i], shift) \subseteq 0..255
    /\ pc = "decrypted" =>
          /\ string = value
          /\ \A i \in 1..Len(value) : DecryptSums(e[i], shift) \subseteq 0..255

\* a letter that wraps under a negative shift, next to a character that is not
\* a letter, has come back
C33_Witness ==
    /\ pc = "decrypted"
    /\ shift < 0
    /\ string = value
    /\ \E i, j \in 1..Len(value) :
          /\ value[i] = 97
          /\ Encrypt(value, shift)[i] > 97
          /\ ~IsAsciiAlphabetic(value[j])

\* ------------------------------------------------- claims about remove_dirs
\* the directories remove_dirs is given, the operation's root left out
NonRootDirs == {p \in Range(path_content.list_of_dirs) : p # source_path}

\* remove_dirs has recorded that the removal of p failed
RemoveDirFailed(p) ==
    \E k \in 1..Len(remove_list_of_errors) :
        remove_list_of_errors[k] = OperationError("remove_dir", p)

\* C34: when the directories are removed in parallel by entry, every directory
\* other than the root is empty when its removal is attempted, whatever the
\* order of the workers: with no failure of the file system no removal of such
\* a directory fails, and when remove_dirs has run every indexed directory is
\* gone.
C34_NonRootEmptyWhenAttempted ==
    (fails = 0 /\ alters = 0) =>
        /\ \A p \in NonRootDirs : ~RemoveDirFailed(p)
        /\ (pc = "done" /\ outcome = "moved" /\ files_ok) =>
              \A p \in Range(path_content.list_of_dirs) : ~Exists(fs, p)

\* a worker of remove_dirs takes the operation's root in this step
RootRemovalAttempted ==
    /\ pc = "removing_dirs"
    /\ \E i \in todo \ todo' : path_content.list_of_dirs[i] = source_path

\* C35: remove_dirs calls remove on the operation's root only when a listing of
\* the root reports no child, whatever the order in which the workers remove
\* the other directories.
C35_RootRemovedOnlyWhenEmpty ==
    [][RootRemovalAttempted => ReadDir(fs, source_path) = {}]_vars

\* the root of a tree with two other directories has been removed after them
C35_Witness ==
    /\ variant = "execute"
    /\ pc = "done"
    /\ outcome = "moved"
    /\ Cardinality(NonRootDirs) >= 2
    /\ IsDir(fs0, source_path)
    /\ ~Exists(fs, source_path)

\* ---------------------------------------------------------------------------
\* Node::copy, the closure of the parallel iteration step by step: the workers
\* of files_stack interleave between the policy decision, the open, the byte
\* copy and the push under the Mutex of copied_files.
\* ---------------------------------------------------------------------------

\* the position of worker i: a worker that has not started is at the decision
WorkerAt(i) == IF i \in DOMAIN worker THEN worker[i].at ELSE "decide"

\* the open mode worker i has set in its OpenOptions
WorkerOpenMode(i) == IF i \in DOMAIN worker THEN worker[i].open ELSE "none"

\* what a step of one worker leaves alone
workerFrame == <<pc, source_path, option, into, only_folders, only_files, poisoned,
                 value, shift, string, tree, locked, stack, files_stack,
                 copied_result, verify_result, printed, legacyVars>>

\* the closure returns: the worker is done
WorkerReturn(i) ==
    /\ worker' = Put(worker, i, [at |-> "done", open |-> WorkerOpenMode(i)])
    /\ todo' = todo \ {i}

\* Node::handle_copy_option, then `if do_copy`
WorkerDecide(i) ==
    /\ pc = "files"
    /\ i \in todo
    /\ WorkerAt(i) = "decide"
    /\ LET file_node == files_stack[i].node
           full_path == files_stack[i].full_path
       IN \E meta_fail \in {FALSE, option = "Update" /\ Exists(fs, full_path) /\ fails < MaxFail} :
          LET d == HandleCopyOption(fs, file_node, full_path, option, meta_fail)
          IN IF ~d.ok
             THEN /\ failed' = failed \cup {full_path}
                  /\ fails' = fails + 1
                  /\ WorkerReturn(i)
                  /\ UNCHANGED skipped
             ELSE IF ~d.do_copy
             THEN /\ skipped' = skipped \cup {full_path}
                  /\ WorkerReturn(i)
                  /\ UNCHANGED <<failed, fails>>
             ELSE /\ worker' = Put(worker, i, [at |-> "open", open |-> d.open])
                  /\ UNCHANGED <<todo, failed, skipped, fails>>
    /\ UNCHANGED <<fs, alters, cursor, copied_files, guard, workerFrame>>

\* another process creates a file at a destination path a worker has decided
\* to create and has not opened yet
FileAppears ==
    /\ pc = "files"
    /\ alters < MaxAlter
    /\ alters' = alters + 1
    /\ \E i \in todo :
          /\ WorkerAt(i) = "open"
          /\ ~Exists(fs, files_stack[i].full_path)
          /\ ParentIsDir(fs, files_stack[i].full_path)
          /\ fs' = Put(fs, files_stack[i].full_path, Written(<<0>>))
    /\ UNCHANGED <<fails, todo, cursor, copied_files, failed, skipped, worker, guard,
                   workerFrame>>

\* open_options.open(full_path): create_new creates an empty file, truncate
\* empties the file that exists
WorkerOpen(i) ==
    /\ pc = "files"
    /\ i \in todo
    /\ WorkerAt(i) = "open"
    /\ LET full_path == files_stack[i].full_path
       IN \/ /\ ~OpenOk(fs, full_path, worker[i].open)
             /\ failed' = failed \cup {full_path}
             /\ WorkerReturn(i)
             /\ UNCHANGED <<fs, fails>>
          \/ /\ OpenOk(fs, full_path, worker[i].open)
             /\ fails < MaxFail
             /\ failed' = failed \cup {full_path}
             /\ fails' = fails + 1
             /\ WorkerReturn(i)
             /\ UNCHANGED fs
          \/ /\ OpenOk(fs, full_path, worker[i].open)
             /\ fs' = Put(fs, full_path, Written(<<>>))
             /\ worker' = Put(worker, i, [at |-> "copy", open |-> worker[i].open])
             /\ UNCHANGED <<todo, failed, fails>>
    /\ UNCHANGED <<alters, cursor, copied_files, skipped, guard, workerFrame>>

\* std::io::copy(&mut &file_node.handle, &mut dest_file)
WorkerIoCopy(i) ==
    /\ pc = "files"
    /\ i \in todo
    /\ WorkerAt(i) = "copy"
    /\ LET file_node == files_stack[i].node
           full_path == files_stack[i].full_path
           data == fs[file_node].data
           rest == IoCopy(data, cursor[file_node])
       IN \/ /\ fails < MaxFail
             /\ \E k \in 0..Len(rest) :
                   /\ k < Len(rest) \/ k = 0
                   /\ fs' = Put(fs, full_path, Written(SubSeq(rest, 1, k)))
                   /\ cursor' = [cursor EXCEPT ![file_node] = @ + k]
             /\ failed' = failed \cup {full_path}
             /\ fails' = fails + 1
             /\ WorkerReturn(i)
          \/ /\ fs' = Put(fs, full_path, Written(rest))
             /\ cursor' = [cursor EXCEPT ![file_node] = Len(data)]
             /\ worker' = Put(worker, i, [at |-> "lock", open |-> worker[i].open])
             /\ UNCHANGED <<todo, failed, fails>>
    /\ UNCHANGED <<alters, copied_files, skipped, guard, workerFrame>>

\* a lock that is granted while another worker holds the Mutex
WorkerLockNoWait(i) ==
    /\ pc = "files"
    /\ i \in todo
    /\ WorkerAt(i) = "lock"
    /\ guard' = i
    /\ worker' = Put(worker, i, [at |-> "push", open |-> worker[i].open])
    /\ UNCHANGED <<fs, fails, alters, todo, cursor, copied_files, failed, skipped,
                   workerFrame>>

\* copied_files.lock(): the worker waits until the Mutex is free
WorkerLock(i) ==
    /\ pc = "files"
    /\ i \in todo
    /\ WorkerAt(i) = "lock"
    /\ guard = 0
    /\ guard' = i
    /\ worker' = Put(worker, i, [at |-> "push", open |-> worker[i].open])
    /\ UNCHANGED <<fs, fails, alters, todo, cursor, copied_files, failed, skipped,
                   workerFrame>>

\* copied_files.push(full_path.clone()); the guard is dropped at the end of
\* the match arm
WorkerPush(i) ==
    /\ pc = "files"
    /\ i \in todo
    /\ WorkerAt(i) = "push"
    /\ guard = i
    /\ copied_files' = Append(copied_files, files_stack[i].full_path)
    /\ guard' = 0
    /\ WorkerReturn(i)
    /\ UNCHANGED <<fs, fails, alters, cursor, failed, skipped, workerFrame>>

NextWorkers ==
    \/ TreeNew
    \/ TreeCopy
    \/ PrepareStep
    \/ PrepareDone
    \/ \E i \in todo : WorkerDecide(i)
    \/ FileAppears
    \/ \E i \in todo : WorkerOpen(i)
    \/ \E i \in todo : WorkerIoCopy(i)
    \/ \E i \in todo : WorkerLock(i)
    \/ \E i \in todo : WorkerPush(i)
    \/ CopyFilesDone

\* the copy command without only_folders, up to the return of Node::copy
InitWorkers == Init /\ ~only_folders

SpecWorkers == InitWorkers /\ [][NextWorkers]_vars

\* ------------------------------------------- claims about the workers' steps
\* the position and the open mode of worker i after the step
WorkerAtNext(i) == IF i \in DOMAIN worker' THEN worker'[i].at ELSE "decide"
WorkerOpenModeNext(i) == IF i \in DOMAIN worker' THEN worker'[i].open ELSE "none"

\* worker i decides to copy in this step
DecidesToCopy(i) == WorkerAt(i) = "decide" /\ WorkerAtNext(i) = "open"

\* worker i calls open in this step with create_new set, on a path that exists
OpensExisting(i) ==
    /\ WorkerAt(i) = "open"
    /\ WorkerAtNext(i) # "open"
    /\ worker[i].open = "create_new"
    /\ Exists(fs, files_stack[i].full_path)

\* C36: under None and Complete, and under Update when the destination is
\* absent at the decision, the destination is opened create-new-exclusive, and
\* only Replace and Update with a newer source open it create-or-truncate; when
\* the path exists at the open of a create-new worker (a file appeared after
\* the decision), the open fails, the file system is left as it is and the
\* path is not pushed on copied_files.
C36_CreateNewExclusive ==
    [][pc = "files" =>
        \A i \in todo :
            LET file_node == files_stack[i].node
                full_path == files_stack[i].full_path
            IN /\ DecidesToCopy(i) =>
                     /\ WorkerOpenModeNext(i) = "create_new" <=>
                           \/ option \in {"None", "Complete"}
                           \/ option = "Update" /\ ~Exists(fs, full_path)
                     /\ WorkerOpenModeNext(i) = "truncate" <=>
                           \/ option = "Replace"
                           \/ /\ option = "Update"
                              /\ Exists(fs, full_path)
                              /\ fs[file_node].mtime > fs[full_path].mtime
               /\ OpensExisting(i) =>
                     /\ fs' = fs
                     /\ copied_files' = copied_files
                     /\ WorkerAtNext(i) = "done"
                     /\ full_path \in failed'
    ]_vars

\* a file appeared after a worker decided to create it: the copy has returned,
\* the file that appeared is as it was and its path is not among the copied
C36_Witness ==
    /\ pc = "copied"
    /\ copied_result.ok
    /\ fails = 0
    /\ alters = 1
    /\ \E i \in DOMAIN worker :
          /\ worker[i].at = "done"
          /\ worker[i].open = "create_new"
          /\ ~Exists(fs0, files_stack[i].full_path)
          /\ fs[files_stack[i].full_path] = Written(<<0>>)
          /\ files_stack[i].full_path \in failed
          /\ files_stack[i].full_path \notin Range(copied_result.val)

\* the number of times p is in the sequence s
Occurrences(s, p) == Cardinality({k \in 1..Len(s) : s[k] = p})

\* the byte copy of worker i has returned Ok
CopySucceeded(i) ==
    /\ WorkerAt(i) \in {"lock", "push", "done"}
    /\ files_stack[i].full_path \notin failed \cup skipped

\* C37: a worker holds the Mutex of copied_files only while it appends, never
\* during the open or the byte copy, and at most one worker appends at a time;
\* in every interleaving the path of each copy that succeeded is in the
\* collection exactly once when its worker is done, and nothing else is in it.
C37_GuardOnlyAroundAppend ==
    (pc \in {"files", "copied"} /\ ~only_folders /\ worker # <<>>) =>
        /\ \A i \in 1..Len(files_stack) :
              /\ WorkerAt(i) = "push" <=> guard = i
              /\ (WorkerAt(i) = "done" /\ CopySucceeded(i)) =>
                    Occurrences(copied_files, files_stack[i].full_path) = 1
              /\ ~(WorkerAt(i) = "done" /\ CopySucceeded(i)) =>
                    Occurrences(copied_files, files_stack[i].full_path) = 0
        /\ Range(copied_files) \subseteq {files_stack[i].full_path : i \in 1..Len(files_stack)}

\* two workers are in their byte copy at once, both destinations are open and
\* nobody holds the Mutex
C37_Witness ==
    /\ pc = "files"
    /\ guard = 0
    /\ \E i, j \in todo :
          /\ i # j
          /\ WorkerAt(i) = "copy"
          /\ WorkerAt(j) = "copy"
          /\ IsFile(fs, files_stack[i].full_path)
          /\ IsFile(fs, files_stack[j].full_path)

\* C38: when execute ends the move of a directory and reports success, every indexed
\* directory of the source and the source root itself are gone, also when the
\* source holds directories and no file.
C38_MovedMeansRemoved ==
    (variant = "execute" /\ pc = "done" /\ outcome = "moved" /\ IsDir(fs0, source_path)) =>
        \A p \in Range(path_content.list_of_dirs) \cup {source_path} : ~Exists(fs, p)

\* the command has ended with an error of its file phase: a listed file is
\* still there
EndedWithFileLeft ==
    /\ pc = "done"
    /\ outcome \in {"false", "remove_errors"}
    /\ \E p \in ListedFiles : IsFile(fs, p)

\* the directories of the source as the command found it
SourceDirsAtStart == {q \in DOMAIN fs0 : IsDir(fs0, q) /\ IsPrefix(source_path, q)}

\* a step of the directory phase in which the removal of a directory is attempted
DirectoryRemovalAttempted == DirectoryPhase /\ todo' # todo

\* C39: in remove and in the second phase of move the directory phase runs only
\* when the file phase reported success: no directory removal is attempted
\* after the removal of a file failed, and a command that ends with a listed
\* file left has removed no directory of the source.
C39_NoDirectoryAfterFileFailure ==
    /\ [](DirectoryPhase => (files_ok /\ \A p \in ListedFiles : ~Exists(fs, p)))
    /\ [][(RemovesSourceDirectory \/ DirectoryRemovalAttempted) => files_ok]_vars
    /\ [](EndedWithFileLeft => \A q \in SourceDirsAtStart : IsDir(fs, q))

\* the removal of one file of the move failed: the command has ended with the
\* error and the directories of the source, two or more, are all there
C39_Witness ==
    /\ variant = "execute"
    /\ EndedWithFileLeft
    /\ outcome = "remove_errors"
    /\ Cardinality(SourceDirsAtStart) >= 2
    /\ \A q \in SourceDirsAtStart : IsDir(fs, q)
    /\ \E p \in ListedFiles : ~Exists(fs, p)

\* ------------------------------------------- index_entries: the loop goes on
\* the work-list loop is sequential code that runs until it returns
SpecIndexFair == InitIndex /\ [][NextIndex]_vars /\ WF_vars(NextIndex)

\* C40: on a finite tree the work-list loop of index_entries returns; no entry
\* is ever recorded twice, and after an Ok with ignore = None and no failed
\* read every file and every directory below the starting entries is recorded,
\* whatever the order in which siblings were pushed, and size is the sum of the
\* lengths of the recorded files.
C40_IndexTerminatesComplete ==
    /\ <>IndexEntriesReturned
    /\ [](NoDuplicate(path_content.list_of_files) /\ NoDuplicate(path_content.list_of_dirs))
    /\ []((ignore = "None" /\ IndexEntriesOk /\ fails = 0) =>
            /\ Range(path_content.list_of_files) = SourceFiles
            /\ Range(path_content.list_of_dirs) = SourceDirs
            /\ path_content.size = SumSizes(path_content.list_of_files)
            /\ path_content.entries = Cardinality(SourceFiles) + Cardinality(SourceDirs))

\* a tree with files and directories at two levels has been indexed whole
C40_Witness ==
    /\ variant = "index_entries"
    /\ ignore = "None"
    /\ pc = "dest"
    /\ fails = 0
    /\ list_to_explore = <<>>
    /\ Cardinality(SourceFiles) >= 2
    /\ Cardinality(SourceDirs) >= 2
    /\ \E p \in Range(path_content.list_of_dirs) : Len(p) = Len(source_path) + 2
    /\ path_content.size = SumSizes(path_content.list_of_files)
    /\ path_content.size > 0

====
